---- MODULE Spec2Model ----
(***************************************************************************)
(* Evernote sync service (Backend/evernote_sync.py) and the routes that    *)
(* drive it (Backend/evernote.py), over the tables of                      *)
(* app/models/evernote.py.                                                 *)
(*                                                                         *)
(* One sync pass (full_sync_user) per local user is a sequential process;  *)
(* passes of different users share the committed database.  Every pass     *)
(* owns one AsyncSession: statements it has executed but not committed are *)
(* kept in its "pending" set and reach the tables at its next commit.      *)
(* Timestamps (datetime.utcnow()) are abstracted to the id of the SyncLog  *)
(* row of the pass that writes them.                                       *)
(***************************************************************************)
EXTENDS Integers, Sequences, FiniteSets, TLC

\* ------------------------------------------------------------------------
\* Bounds of the model
\* ------------------------------------------------------------------------
\* number of calls of full_sync_user that get as far as writing a SyncLog row
MaxPasses == 3
\* number of changes made to notes on the remote side
MaxRemoteEdits == 1
\* number of calls of toggle_notebook_sync that flip a flag
MaxToggles == 2
\* number of failures of the environment: a remote call that raises, or a
\* token that is absent or expired when a pass is asked for
MaxFaults == 1
\* number of notes of the longest listing sync_notes_in_notebook is run over
MaxListed == 120
\* number of calls of the stock collector (sync_company_listing, sync_all_prices)
MaxRuns == 3
\* number of rows of the longest KRX listing, and so of companies
MaxCompanies == 2
\* number of daily prices sync_prices stores for one company
MaxDays == 2

\* ------------------------------------------------------------------------
\* Values
\* ------------------------------------------------------------------------
\* Python's None / SQL NULL
None == "None"

\* a DateTime column that is NULL
NoTime == 0

\* local accounts (User.id)
Users == {"A", "B"}

\* batch_size of sync_notes_in_notebook
BatchSize == 50

\* the length the stock collector of the same backend cuts the error text of
\* its log rows to: str(e)[:500]
ErrorTextLimit == 500

\* ------------------------------------------------------------------------
\* The remote service: the answers of the Evernote note store
\* ------------------------------------------------------------------------
\* remote note identifiers
Guids == {"g1", "g2", "g3"}

\* raw ENML payloads a remote note may hold ("" is an empty payload)
Contents == {"<en-note>alpha</en-note>", "<en-note>beta</en-note>", ""}

\* titles a fetched note may carry ("" is an absent title)
Titles == {"T1", "T2", ""}

\* note_store.listNotebooks() for the token of user u
OwnNotebooks(u) ==
    IF u = "A"
    THEN << [guid |-> "Research", name |-> "Research", stack |-> None, updateSequenceNum |-> 5],
            [guid |-> "Private", name |-> "Private", stack |-> "Home", updateSequenceNum |-> -1] >>
    ELSE << [guid |-> "Inbox", name |-> "Inbox", stack |-> None, updateSequenceNum |-> 2] >>

\* tagGuids of a remote note
RemoteTags(g) ==
    CASE g = "g1" -> << "tg1", "tg2" >>
      [] g = "g3" -> << "tg1" >>
      [] OTHER -> << >>

\* getTag(tguid).name
RemoteTagName(tguid) == IF tguid = "tg1" THEN "macro" ELSE "equity"

\* ------------------------------------------------------------------------
\* Pure functions
\* ------------------------------------------------------------------------
Min(a, b) == IF a < b THEN a ELSE b

\* hashlib.md5(s.encode()).hexdigest(): distinct payloads, distinct digests
Md5(s) ==
    CASE s = "" -> "d41d8cd9"
      [] s = "<en-note>alpha</en-note>" -> "md5-alpha"
      [] s = "<en-note>beta</en-note>" -> "md5-beta"
      [] OTHER -> "md5-other"

\* ContentHash when an absent content is hashed as it comes
ContentHashOfRaw(content) == Md5(content)

\* hashlib.md5((en_note.content or "").encode()).hexdigest()
ContentHash(content) == Md5(IF content = None \/ content = "" THEN "" ELSE content)

\* strip_enml: the text left when the ENML markup is removed
strip_enml(enml_content) ==
    CASE enml_content = None \/ enml_content = "" -> ""
      [] enml_content = "<en-note>alpha</en-note>" -> "alpha"
      [] enml_content = "<en-note>beta</en-note>" -> "beta"
      [] OTHER -> enml_content

\* en_note.contentLength as the remote reports it (-1 stands for None)
RemoteContentLength(content) ==
    CASE content = "<en-note>alpha</en-note>" -> 24
      [] content = "<en-note>beta</en-note>" -> 23
      [] OTHER -> -1

\* Python's "x or y" on strings: None and "" are falsy
OrStr(x, y) == IF x = None \/ x = "" THEN y ELSE x

\* Python's "x or y" on integers: None (-1) and 0 are falsy
OrInt(x, y) == IF x = -1 \/ x = 0 THEN y ELSE x

\* _map_privilege when the codes are counted from 0
MapPrivilegeFromZero(priv) ==
    CASE priv = 0 -> "READ"
      [] priv = 1 -> "MODIFY"
      [] priv = 2 -> "FULL"
      [] OTHER -> "READ"

\* _map_privilege
_map_privilege(priv) ==
    CASE priv = 1 -> "READ"
      [] priv = 2 -> "MODIFY"
      [] priv = 3 -> "FULL"
      [] OTHER -> "READ"

\* ------------------------------------------------------------------------
\* State
\* ------------------------------------------------------------------------
VARIABLES
    remoteContent,  \* remote: guid -> raw content getNote returns
    remoteTitle,    \* remote: guid -> title getNote returns
    remoteNotebook, \* remote: guid -> guid of the notebook that lists the note, None when deleted
    remoteShared,   \* remote: whether notebook Research is still shared with user B
    remotePrivilege, \* remote: the privilege code of the share of notebook Research
    edits,          \* number of remote changes made so far
    toggles,        \* number of flags toggle_notebook_sync has flipped so far
    toggleResponse, \* what toggle_notebook_sync answered, until the next sync request
    faults,         \* number of failures of the environment so far
    notebooks,      \* table notebooks: set of committed rows
    notes,          \* table notes: set of committed rows
    noteAccess,     \* table note_access: set of committed rows
    tags,           \* table tags: set of committed rows
    noteTags,       \* table note_tags: set of committed rows
    syncLog,        \* table sync_log: sequence of committed rows, row i has id i
    userLastSync,   \* users.last_sync_at, per user
    pass,           \* per user: the frame of its running full_sync_user call
    observed,       \* history: <<guid, user>> for which _sync_single_note returned normally
    resync,         \* history, per user: whether its last pass succeeded with nothing
                    \* changed since it began, and the tables as its next pass found them
    paging,         \* the frame of sync_notes_in_notebook run alone over a long listing
    stock           \* the stock collector: its tables, its running call, its ended calls

vars == << remoteContent, remoteTitle, remoteNotebook, remoteShared, remotePrivilege, edits, toggles,
           toggleResponse, faults, notebooks, notes, noteAccess,
           tags, noteTags, syncLog, userLastSync, pass, observed, resync, paging, stock >>

remoteVars == << remoteContent, remoteTitle, remoteNotebook, remoteShared, remotePrivilege, edits >>
toggleVars == << toggles, toggleResponse >>
dbVars == << notebooks, notes, noteAccess, tags, noteTags, syncLog, userLastSync >>

\* ------------------------------------------------------------------------
\* The remote listings
\* ------------------------------------------------------------------------
\* the order in which the remote lists notes
GuidOrder == << "g1", "g2", "g3" >>

\* note_store.listLinkedNotebooks() for the token of user u, each with the
\* answer of getSharedNotebookByAuth() on its shared note store
LinkedNotebooks(u) ==
    IF u = "B" /\ remoteShared
    THEN << [shareName |-> "Research", username |-> "A",
             notebookGuid |-> "Research", id |-> 7, privilege |-> remotePrivilege] >>
    ELSE << >>

\* the notes the remote lists under a notebook guid, in listing order
RemoteNotes(nbguid) ==
    LET Listed(g) == remoteNotebook[g] = nbguid
    IN SelectSeq(GuidOrder, Listed)

\* ------------------------------------------------------------------------
\* Frames
\* ------------------------------------------------------------------------
\* result of select(Note).where(Note.evernote_guid == guid) when no row matches
NotFound == [found |-> FALSE, id |-> 0, content_hash |-> None, title |-> None]

\* what the caller of full_sync_user has got back so far
NoResult ==
    [kind |-> "none", error |-> None, log |-> 0, notebooks |-> 0, own |-> 0, shared |-> 0,
     notes |-> 0, resync |-> FALSE]

\* no call of toggle_notebook_sync has answered yet
NoResponse == [status |-> 0, notebook_id |-> 0, sync_enabled |-> FALSE]

\* the frame of a user with no pass running
IdleFrame ==
    [pc |-> "idle",
     log |-> 0,              \* id of the SyncLog row of this pass
     own |-> << >>,          \* own_notebooks
     linked |-> << >>,       \* linked_notebooks
     nbIdx |-> 0,            \* position in all_notebooks
     offset |-> 0,
     page |-> << >>,         \* notes_metadata.notes
     totalNotes |-> 0,       \* notes_metadata.totalNotes
     noteIdx |-> 0,          \* position in the page
     total_synced |-> 0,
     total_notes |-> 0,
     existing |-> NotFound,
     pending |-> {},         \* note_access rows executed but not committed
     second |-> FALSE,       \* history: the pass before this one succeeded, nothing changed since
     clean |-> TRUE,         \* history: no remote change and no toggle since this pass began
     result |-> NoResult]

\* AllNotebooks when the linked notebooks come first
AllNotebooksLinkedFirst(p) == p.linked \o p.own

\* all_notebooks = own_notebooks + linked_notebooks
AllNotebooks(p) == p.own \o p.linked

\* datetime.utcnow() inside the pass of p
Now(p) == p.log

\* ------------------------------------------------------------------------
\* Tables
\* ------------------------------------------------------------------------
\* next value of a serial primary key
NextId(table) == Cardinality(table) + 1

\* NotebookRows when the key is the remote notebook identifier alone
NotebookRowsAnyUser(nbs, u, guid) == {r \in nbs : r.notebook_guid = guid}

\* select(Notebook).where(user_id == u, notebook_guid == guid)
NotebookRows(nbs, u, guid) == {r \in nbs : r.user_id = u /\ r.notebook_guid = guid}

\* the values a notebook upsert inserts when (user_id, notebook_guid) is new
NewNotebookRow(nbs, u, guid) ==
    [id |-> NextId(nbs), user_id |-> u, notebook_guid |-> guid, name |-> None,
     stack |-> None, is_shared |-> FALSE, shared_from |-> None,
     shared_notebook_guid |-> None, privilege |-> "READ", usn |-> 0,
     sync_enabled |-> TRUE, last_sync_at |-> NoTime, updated_at |-> NoTime]

\* UpsertOwnNotebook when a conflict replaces the row by the inserted values
UpsertOwnNotebookReset(nbs, u, nb, now) ==
    IF NotebookRows(nbs, u, nb.guid) = {}
    THEN nbs \cup {[NewNotebookRow(nbs, u, nb.guid) EXCEPT
                        !.name = nb.name, !.stack = nb.stack, !.is_shared = FALSE,
                        !.usn = OrInt(nb.updateSequenceNum, 0), !.updated_at = now]}
    ELSE {IF r \in NotebookRows(nbs, u, nb.guid)
          THEN [r EXCEPT !.name = nb.name, !.stack = nb.stack,
                         !.usn = OrInt(nb.updateSequenceNum, 0), !.updated_at = now,
                         !.sync_enabled = TRUE]
          ELSE r : r \in nbs}

\* the upsert of sync_own_notebooks for one remote notebook
UpsertOwnNotebook(nbs, u, nb, now) ==
    IF NotebookRows(nbs, u, nb.guid) = {}
    THEN nbs \cup {[NewNotebookRow(nbs, u, nb.guid) EXCEPT
                        !.name = nb.name, !.stack = nb.stack, !.is_shared = FALSE,
                        !.usn = OrInt(nb.updateSequenceNum, 0), !.updated_at = now]}
    ELSE {IF r \in NotebookRows(nbs, u, nb.guid)
          THEN [r EXCEPT !.name = nb.name, !.stack = nb.stack,
                         !.usn = OrInt(nb.updateSequenceNum, 0), !.updated_at = now]
          ELSE r : r \in nbs}

\* shared_from = lnb.username or lnb.shareName or "Unknown"
SharedFrom(lnb) == OrStr(lnb.username, OrStr(lnb.shareName, "Unknown"))

\* UpsertLinkedNotebook when a conflict also rewrites the privilege
UpsertLinkedNotebookRemap(nbs, u, lnb, now) ==
    IF NotebookRows(nbs, u, lnb.notebookGuid) = {}
    THEN nbs \cup {[NewNotebookRow(nbs, u, lnb.notebookGuid) EXCEPT
                        !.name = OrStr(lnb.shareName, "Shared Notebook"),
                        !.is_shared = TRUE, !.shared_from = SharedFrom(lnb),
                        !.shared_notebook_guid = IF lnb.id = 0 THEN None ELSE ToString(lnb.id),
                        !.privilege = _map_privilege(lnb.privilege),
                        !.updated_at = now]}
    ELSE {IF r \in NotebookRows(nbs, u, lnb.notebookGuid)
          THEN [r EXCEPT !.name = OrStr(lnb.shareName, "Shared Notebook"),
                         !.shared_from = SharedFrom(lnb),
                         !.privilege = _map_privilege(lnb.privilege), !.updated_at = now]
          ELSE r : r \in nbs}

\* the upsert of sync_linked_notebooks for one linked notebook
UpsertLinkedNotebook(nbs, u, lnb, now) ==
    IF NotebookRows(nbs, u, lnb.notebookGuid) = {}
    THEN nbs \cup {[NewNotebookRow(nbs, u, lnb.notebookGuid) EXCEPT
                        !.name = OrStr(lnb.shareName, "Shared Notebook"),
                        !.is_shared = TRUE, !.shared_from = SharedFrom(lnb),
                        !.shared_notebook_guid = IF lnb.id = 0 THEN None ELSE ToString(lnb.id),
                        !.privilege = _map_privilege(lnb.privilege),
                        !.updated_at = now]}
    ELSE {IF r \in NotebookRows(nbs, u, lnb.notebookGuid)
          THEN [r EXCEPT !.name = OrStr(lnb.shareName, "Shared Notebook"),
                         !.shared_from = SharedFrom(lnb), !.updated_at = now]
          ELSE r : r \in nbs}

\* the table after the upserts of the first k entries of a listing
RECURSIVE UpsertOwnAll(_, _, _, _, _)
UpsertOwnAll(nbs, u, listing, k, now) ==
    IF k = 0 THEN nbs
    ELSE UpsertOwnNotebook(UpsertOwnAll(nbs, u, listing, k - 1, now), u, listing[k], now)

RECURSIVE UpsertLinkedAll(_, _, _, _, _)
UpsertLinkedAll(nbs, u, listing, k, now) ==
    IF k = 0 THEN nbs
    ELSE UpsertLinkedNotebook(UpsertLinkedAll(nbs, u, listing, k - 1, now), u, listing[k], now)

\* NotebookHandle when the object does not carry the stored flag
NotebookHandleEnabled(nbs, u, guid) ==
    LET r == CHOOSE r \in NotebookRows(nbs, u, guid) : TRUE
    IN [id |-> r.id, notebook_guid |-> r.notebook_guid, is_shared |-> r.is_shared,
        sync_enabled |-> TRUE]

\* result.scalar_one(): the Notebook object the pass keeps for a remote notebook
NotebookHandle(nbs, u, guid) ==
    LET r == CHOOSE r \in NotebookRows(nbs, u, guid) : TRUE
    IN [id |-> r.id, notebook_guid |-> r.notebook_guid, is_shared |-> r.is_shared,
        sync_enabled |-> r.sync_enabled]

\* LookupNote when the select also filters on the requesting user
LookupNoteOfUser(rows, guid, u) ==
    LET hit == {n \in rows : n.evernote_guid = guid /\ n.source_user_id = u}
    IN IF hit = {} THEN [found |-> FALSE, id |-> 0, content_hash |-> None, title |-> None]
       ELSE LET n == CHOOSE n \in hit : TRUE
            IN [found |-> TRUE, id |-> n.id, content_hash |-> n.content_hash, title |-> n.title]

\* select(Note).where(Note.evernote_guid == guid), scalar_one_or_none()
LookupNote(rows, guid, u) ==
    LET hit == {n \in rows : n.evernote_guid = guid}
    IN IF hit = {} THEN NotFound
       ELSE LET n == CHOOSE n \in hit : TRUE
            IN [found |-> TRUE, id |-> n.id, content_hash |-> n.content_hash, title |-> n.title]

\* the unique constraint on notes.evernote_guid, as db.flush() meets it on insert
UniqueViolation(rows, guid) == \E n \in rows : n.evernote_guid = guid

\* en_note = note_store.getNote(guid, True, False, False, False)
GetNote(guid) ==
    [title |-> remoteTitle[guid], content |-> remoteContent[guid],
     contentLength |-> RemoteContentLength(remoteContent[guid]),
     tagGuids |-> RemoteTags(guid)]

\* Unchanged when the title is compared as well as the fingerprint
UnchangedWithTitle(existing, en_note) ==
    /\ existing.content_hash = ContentHash(en_note.content)
    /\ existing.title = en_note.title

\* existing.content_hash == new_hash
Unchanged(existing, en_note) == existing.content_hash = ContentHash(en_note.content)

\* RefreshNote when the fingerprint is not stored with the new content
RefreshNoteKeepHash(n, existing, en_note, now) ==
    [n EXCEPT !.title = OrStr(en_note.title, existing.title),
              !.enml_content = en_note.content,
              !.plain_text = strip_enml(en_note.content),
              !.content_length = OrInt(en_note.contentLength, 0),
              !.updated_at = now]

\* RefreshNote when the user whose pass refreshes the content takes the note
\* over from the user it was attributed to
RefreshNoteTakeOver(n, existing, en_note, now) ==
    [n EXCEPT !.title = OrStr(en_note.title, existing.title),
              !.enml_content = en_note.content,
              !.plain_text = strip_enml(en_note.content),
              !.content_hash = ContentHash(en_note.content),
              !.content_length = OrInt(en_note.contentLength, 0),
              !.source_user_id = CHOOSE v \in Users : v # n.source_user_id,
              !.updated_at = now]

\* RefreshNote when the plain text is not rendered again from the new content
RefreshNoteKeepText(n, existing, en_note, now) ==
    [n EXCEPT !.title = OrStr(en_note.title, existing.title),
              !.enml_content = en_note.content,
              !.content_hash = ContentHash(en_note.content),
              !.content_length = OrInt(en_note.contentLength, 0),
              !.updated_at = now]

\* the "Content updated - refresh" assignments on the row of existing
RefreshNote(n, existing, en_note, now) ==
    [n EXCEPT !.title = OrStr(en_note.title, existing.title),
              !.enml_content = en_note.content,
              !.plain_text = strip_enml(en_note.content),
              !.content_hash = ContentHash(en_note.content),
              !.content_length = OrInt(en_note.contentLength, 0),
              !.updated_at = now]

\* Note(...) of the "New note" branch
NewNote(rows, guid, notebook, u, en_note, now) ==
    [id |-> NextId(rows), evernote_guid |-> guid, notebook_id |-> notebook.id,
     source_user_id |-> u, title |-> OrStr(en_note.title, "Untitled"),
     plain_text |-> strip_enml(en_note.content), enml_content |-> en_note.content,
     content_hash |-> ContentHash(en_note.content),
     content_length |-> OrInt(en_note.contentLength, 0), is_deleted |-> FALSE,
     updated_at |-> now]

\* _ensure_note_access when the conflict target is note_id alone
EnsureAccessPerNote(rows, note_id, user_id, now) ==
    IF \E a \in rows : a.note_id = note_id
    THEN rows
    ELSE rows \cup {[note_id |-> note_id, user_id |-> user_id,
                     access_type |-> "SYNC", synced_at |-> now]}

\* _ensure_note_access when a conflict updates synced_at
EnsureAccessDoUpdate(rows, note_id, user_id, now) ==
    {a \in rows : ~(a.note_id = note_id /\ a.user_id = user_id)}
        \cup {[note_id |-> note_id, user_id |-> user_id,
                access_type |-> "SYNC", synced_at |-> now]}

\* _ensure_note_access when the statement is a plain insert into a table with
\* no key on (note_id, user_id)
EnsureAccessPlainInsert(rows, note_id, user_id, now) ==
    rows \cup {[note_id |-> note_id, user_id |-> user_id,
                access_type |-> "SYNC", synced_at |-> now]}

\* _ensure_note_access when the grant of the user moves to the note: the
\* user's other rows are deleted
EnsureAccessReplace(rows, note_id, user_id, now) ==
    {a \in rows : a.user_id # user_id}
        \cup {[note_id |-> note_id, user_id |-> user_id,
               access_type |-> "SYNC", synced_at |-> now]}

\* _ensure_note_access when nothing is inserted
EnsureAccessNoGrant(rows, note_id, user_id, now) == rows

\* _ensure_note_access: the rows of the session (committed and pending) after
\* INSERT ... ON CONFLICT (note_id, user_id) DO NOTHING
_ensure_note_access(rows, note_id, user_id, now) ==
    IF \E a \in rows : a.note_id = note_id /\ a.user_id = user_id
    THEN rows
    ELSE rows \cup {[note_id |-> note_id, user_id |-> user_id,
                     access_type |-> "SYNC", synced_at |-> now]}

\* _sync_note_tags when the first tag that cannot be fetched ends the loop
RECURSIVE SyncNoteTagsBreak(_, _, _, _, _)
SyncNoteTagsBreak(t, note_id, tag_guids, k, failing) ==
    IF k = 0 THEN t
    ELSE LET before == SyncNoteTagsBreak(t, note_id, tag_guids, k - 1, failing)
             tguid == tag_guids[k]
             have == {x \in before.tags : x.evernote_guid = tguid}
             broken == \E j \in 1..k : /\ tag_guids[j] \in failing
                                       /\ \A x \in t.tags : x.evernote_guid # tag_guids[j]
         IN IF broken
            THEN before
            ELSE LET tag == IF have # {} THEN CHOOSE x \in have : TRUE
                            ELSE [id |-> NextId(before.tags), evernote_guid |-> tguid,
                                  name |-> RemoteTagName(tguid)]
                 IN [tags |-> before.tags \cup {tag},
                     noteTags |-> before.noteTags \cup {[note_id |-> note_id, tag_id |-> tag.id]}]

\* _sync_note_tags when a Tag row is inserted without looking for an existing one
RECURSIVE SyncNoteTagsNoLookup(_, _, _, _, _)
SyncNoteTagsNoLookup(t, note_id, tag_guids, k, failing) ==
    IF k = 0 THEN t
    ELSE LET before == SyncNoteTagsNoLookup(t, note_id, tag_guids, k - 1, failing)
             tguid == tag_guids[k]
         IN IF tguid \in failing
            THEN before
            ELSE LET tag == [id |-> NextId(before.tags), evernote_guid |-> tguid,
                             name |-> RemoteTagName(tguid)]
                 IN [tags |-> before.tags \cup {tag},
                     noteTags |-> before.noteTags \cup {[note_id |-> note_id, tag_id |-> tag.id]}]

\* _sync_note_tags over the first k tag guids: t is [tags, noteTags]; getTag
\* raises for the guids in failing, and such a tag is skipped
RECURSIVE _sync_note_tags(_, _, _, _, _)
_sync_note_tags(t, note_id, tag_guids, k, failing) ==
    IF k = 0 THEN t
    ELSE LET before == _sync_note_tags(t, note_id, tag_guids, k - 1, failing)
             tguid == tag_guids[k]
             have == {x \in before.tags : x.evernote_guid = tguid}
         IN IF have = {} /\ tguid \in failing
            THEN before
            ELSE LET tag == IF have # {} THEN CHOOSE x \in have : TRUE
                            ELSE [id |-> NextId(before.tags), evernote_guid |-> tguid,
                                  name |-> RemoteTagName(tguid)]
                 IN [tags |-> before.tags \cup {tag},
                     noteTags |-> before.noteTags \cup {[note_id |-> note_id, tag_id |-> tag.id]}]

\* the tag guids of a sequence, as a set
Range(seq) == {seq[i] : i \in 1..Len(seq)}

\* the page of at most batch_size notes that follows the first offset notes of
\* a listing
PageOfListing(listing, offset, batch_size) ==
    SubSeq(listing, offset + 1, Min(offset + batch_size, Len(listing)))

\* findNotesMetadata(note_filter, offset, batch_size, result_spec).notes
PageOf(nbguid, offset, batch_size) == PageOfListing(RemoteNotes(nbguid), offset, batch_size)

\* NextNotebook when the count of a notebook replaces the running total
NextNotebookLastOnly(p, count) ==
    [p EXCEPT !.total_notes = count, !.nbIdx = @ + 1, !.offset = 0, !.page = << >>,
              !.totalNotes = 0, !.noteIdx = 0, !.total_synced = 0, !.existing = NotFound,
              !.pc = IF p.nbIdx + 1 > Len(AllNotebooks(p)) THEN "finish" ELSE "list"]

\* the frame when sync_notes_in_notebook has returned count to full_sync_user
NextNotebook(p, count) ==
    [p EXCEPT !.total_notes = @ + count, !.nbIdx = @ + 1, !.offset = 0, !.page = << >>,
              !.totalNotes = 0, !.noteIdx = 0, !.total_synced = 0, !.existing = NotFound,
              !.pc = IF p.nbIdx + 1 > Len(AllNotebooks(p)) THEN "finish" ELSE "list"]

\* AfterNote when the loop over pages ends with the first page
AfterNoteOnePage(p, synced) ==
    LET q == [p EXCEPT !.total_synced = IF synced THEN @ + 1 ELSE @, !.existing = NotFound]
    IN IF p.noteIdx < Len(p.page)
       THEN [q EXCEPT !.pc = "lookup", !.noteIdx = @ + 1]
       ELSE [q EXCEPT !.pc = "finish_nb", !.offset = @ + BatchSize]

\* the frame when _sync_single_note has returned synced to the loop over the page
AfterNote(p, synced) ==
    LET q == [p EXCEPT !.total_synced = IF synced THEN @ + 1 ELSE @, !.existing = NotFound]
    IN IF p.noteIdx < Len(p.page)
       THEN [q EXCEPT !.pc = "lookup", !.noteIdx = @ + 1]
       ELSE IF p.offset + BatchSize >= p.totalNotes
            THEN [q EXCEPT !.pc = "finish_nb", !.offset = @ + BatchSize]
            ELSE [q EXCEPT !.pc = "list", !.offset = @ + BatchSize]

\* history value of a user whose next pass is no idempotent re-sync
Unarmed == [armed |-> FALSE, notes |-> {}, access |-> {}, notebooks |-> {}]

\* what the caller gets when full_sync_user raises err
Raised(p, err) == [NoResult EXCEPT !.kind = "raised", !.error = err, !.log = p.log]

\* MarkFailed when the error text is not stored
MarkFailedNoText(log, p, err) ==
    [log EXCEPT ![p.log] = [@ EXCEPT !.status = "FAILED", !.finished_at = p.log]]

\* MarkFailed when the update reaches every row of the user
MarkFailedAllRows(log, p, err) ==
    [i \in DOMAIN log |->
        IF log[i].user_id = log[p.log].user_id
        THEN [log[i] EXCEPT !.status = "FAILED", !.error_message = err, !.finished_at = p.log]
        ELSE log[i]]

\* the except branch of full_sync_user with a usable session: the row of the
\* pass becomes FAILED and the exception is raised again
MarkFailed(log, p, err) ==
    [log EXCEPT ![p.log] = [@ EXCEPT !.status = "FAILED", !.error_message = err,
                                     !.finished_at = Now(p)]]

\* the answers a remote call or the auth check may give: TRUE when it goes
\* through, FALSE when it fails
Outcomes == IF faults < MaxFaults THEN BOOLEAN ELSE {TRUE}

\* the sets of tag guids for which getTag may raise during one note: getTag
\* is called for the guids that have no Tag row yet
TagFailures(rows, tag_guids) ==
    {f \in SUBSET {g \in Range(tag_guids) : \A x \in rows : x.evernote_guid # g} :
        Cardinality(f) <= MaxFaults - faults}

\* text s written n times over
RECURSIVE RepeatText(_, _)
RepeatText(s, n) == IF n = 0 THEN "" ELSE s \o RepeatText(s, n - 1)

\* str(e) of the exception a shared note store raises: a message that carries
\* the body of the answer it could not read, 626 characters in all
SharedStoreError == "shared note store failed: " \o RepeatText("<html>", 100)

\* full_sync_user ends by raising err after a remote call failed; the commit of
\* the except branch went through
Fail(u, err) ==
    /\ faults' = faults + 1
    /\ syncLog' = MarkFailed(syncLog, pass[u], err)
    /\ pass' = [pass EXCEPT ![u] = [IdleFrame EXCEPT !.result = Raised(pass[u], err)]]
    /\ resync' = [resync EXCEPT ![u] = Unarmed]

\* a listing of total notes; a note stands for its position in the listing
LongListing(total) == [i \in 1..total |-> i]

\* the frame of sync_notes_in_notebook when it runs over no long listing
PagingOff ==
    [pc |-> "off",
     total |-> 0,            \* number of notes of the listing
     offset |-> 0,
     page |-> << >>,         \* notes_metadata.notes
     totalNotes |-> 0,       \* notes_metadata.totalNotes
     noteIdx |-> 0,          \* position in the page
     total_synced |-> 0,
     existing |-> NotFound,
     requests |-> << >>,     \* history: the offsets findNotesMetadata was called with
     processed |-> << >>]    \* history: the notes handed to _sync_single_note, in order

\* ------------------------------------------------------------------------
\* The stock collector (stock_collector.py): its tables and its session
\* ------------------------------------------------------------------------
\* str(e)[:limit]
Truncated(e, limit) == IF Len(e) <= limit THEN e ELSE SubSeq(e, 1, limit)

\* str(e) of the ValueError sync_company_listing raises for an empty listing
EmptyListingError == "could not fetch the KRX listing"

\* str(e) of the exception fdr.StockListing raises when the exchange answers
\* with an error page: the message carries the page, 628 characters in all
ListingSourceError == "KRX listing request failed: " \o RepeatText("<html>", 100)

\* str(e) of the error of a statement sent in a transaction that an earlier
\* failed statement aborted; SQLAlchemy appends the statement to the message
FailedTransactionError ==
    "current transaction is aborted, commands ignored until end of transaction block"
        \o " [SQL: UPDATE stock_sync_log SET synced_count=$1, error_count=$2, status=$3, "
        \o "finished_at=$4 WHERE stock_sync_log.id = $5]"

\* str(e) of the error of a flush whose UPDATE finds no row
StaleDataError ==
    "UPDATE statement on table 'stock_sync_log' expected to update 1 row(s); 0 were matched."

\* str(e) of the error of a commit on a session whose flush has failed
PendingRollbackError ==
    "This Session's transaction has been rolled back due to a previous exception during flush."

\* StockSyncLog(sync_type=..., status="STARTED") with the defaults of its columns
NewStockSyncLog(id, sync_type) ==
    [id |-> id,
     sync_type |-> sync_type,
     status |-> "STARTED",
     target_count |-> 0,
     synced_count |-> 0,
     error_count |-> 0,
     error_message |-> None,
     finished_at |-> NoTime]

\* table stock_sync_log after a flush writes the object log and the commit
\* goes through: the INSERT of its row, or the UPDATE of the row with its id
WriteLog(table, log) == {r \in table : r.id # log.id} \cup {log}

\* whether table stock_sync_log holds the row with this id
HasRow(table, id) == \E r \in table : r.id = id

\* the except branch of sync_company_listing and sync_all_prices, up to its commit
ExceptBranch(log, e, now) ==
    [log EXCEPT !.status = "FAILED",
                !.error_message = Truncated(e, ErrorTextLimit),
                !.finished_at = now]

\* the try body's last assignments to the log object, up to the commit
SuccessBranch(log, synced, errors, now) ==
    [log EXCEPT !.synced_count = synced,
                !.error_count = errors,
                !.status = "SUCCESS",
                !.finished_at = now]

\* select(Company).where(is_active).order_by(stock_code): the stored companies
\* in the order of their codes
CompaniesByCode(companies) ==
    LET Stored(c) == c \in companies
    IN SelectSeq([c \in 1..MaxCompanies |-> c], Stored)

\* what one call of sync_prices does: it returns after storing a number of
\* daily prices (none when FDR has no data), a data source raises, or the
\* database refuses one of its statements
PriceOutcomes ==
    {[kind |-> "synced", synced |-> n] : n \in 0..MaxDays}
        \cup {[kind |-> "source_error", synced |-> 0],
              [kind |-> "database_error", synced |-> 0]}

\* the collector when no call is running
StockIdle ==
    [pc |-> "idle",
     op |-> None,            \* the method that is running
     log |-> NewStockSyncLog(0, None),   \* the StockSyncLog object of the call
     aborted |-> FALSE,      \* a statement has failed in the transaction in progress
     deactive |-> FALSE,     \* a flush has failed: the session asks for a rollback
     upserts |-> {},         \* companies upserted in the transaction in progress
     rows |-> 0,             \* len(krx_df)
     companies |-> << >>,    \* the companies sync_all_prices loops over
     idx |-> 0,              \* position in the for loop
     synced |-> 0,           \* synced / total_synced
     errors |-> 0,           \* errors / total_errors
     error |-> None,         \* str(e) of the exception on its way to the except branch
     outcomes |-> << >>]     \* history: what sync_prices did for each company, in order

\* the stock collector before its first call: no company, no log row
StockOff ==
    [log |-> {},             \* table stock_sync_log: committed rows
     companies |-> {},       \* table companies: codes of the committed rows
     runs |-> 0,             \* number of calls made so far
     run |-> StockIdle,      \* the frame of the running call
     ended |-> << >>]        \* history: the calls that ended, in order

\* ------------------------------------------------------------------------
\* Initial state: empty tables, every remote note with the same first payload
\* ------------------------------------------------------------------------
InitTables ==
    /\ remoteContent = [g \in Guids |-> "<en-note>alpha</en-note>"]
    /\ remoteTitle = [g \in Guids |-> "T1"]
    /\ remoteNotebook = [g \in Guids |-> IF g = "g3" THEN "Private" ELSE "Research"]
    /\ remoteShared = TRUE
    /\ remotePrivilege = 2
    /\ edits = 0
    /\ toggles = 0
    /\ toggleResponse = NoResponse
    /\ faults = 0
    /\ notebooks = {}
    /\ notes = {}
    /\ noteAccess = {}
    /\ tags = {}
    /\ noteTags = {}
    /\ syncLog = << >>
    /\ userLastSync = [u \in Users |-> NoTime]
    /\ pass = [u \in Users |-> IdleFrame]
    /\ observed = {}
    /\ resync = [u \in Users |-> Unarmed]

\* no listing is paged through on its own
Init == InitTables /\ paging = PagingOff /\ stock = StockOff

\* full_sync_user when the STARTED row is written before the token is checked
StartPassLogFirst(u) ==
    /\ pass[u].pc = "idle"
    /\ Len(syncLog) < MaxPasses
    /\ syncLog' = Append(syncLog,
            [id |-> Len(syncLog) + 1, user_id |-> u, sync_type |-> "FULL",
             status |-> "STARTED", notes_synced |-> 0, notebooks_synced |-> 0,
             error_message |-> None, finished_at |-> NoTime])
    /\ toggleResponse' = NoResponse
    /\ \E is_evernote_connected \in Outcomes :
        IF ~is_evernote_connected
        THEN /\ pass' = [pass EXCEPT ![u] = [IdleFrame EXCEPT
                            !.result = [NoResult EXCEPT !.kind = "raised", !.error = "ValueError"]]]
             /\ faults' = faults + 1
             /\ UNCHANGED resync
        ELSE /\ pass' = [pass EXCEPT ![u] = [IdleFrame EXCEPT
                            !.pc = "own", !.log = Len(syncLog) + 1]]
             /\ resync' = [resync EXCEPT ![u] = Unarmed]
             /\ UNCHANGED faults
    /\ UNCHANGED << remoteVars, paging, stock, toggles, notebooks, notes, noteAccess, tags, noteTags,
                    userLastSync, observed >>

\* StartPass when the user's last_sync_at is stamped as the pass begins
StartPassStamped(u) ==
    /\ pass[u].pc = "idle"
    /\ Len(syncLog) < MaxPasses
    /\ \E is_evernote_connected \in Outcomes :
        IF ~is_evernote_connected
        THEN /\ pass' = [pass EXCEPT ![u] = [IdleFrame EXCEPT
                            !.result = [NoResult EXCEPT !.kind = "raised", !.error = "ValueError"]]]
             /\ faults' = faults + 1
             /\ toggleResponse' = NoResponse
             /\ UNCHANGED << remoteVars, paging, stock, toggles, dbVars, observed, resync >>
        ELSE /\ syncLog' = Append(syncLog,
                    [id |-> Len(syncLog) + 1, user_id |-> u, sync_type |-> "FULL",
                     status |-> "STARTED", notes_synced |-> 0, notebooks_synced |-> 0,
                     error_message |-> None, finished_at |-> NoTime])
             /\ pass' = [pass EXCEPT ![u] = [IdleFrame EXCEPT
                            !.pc = "own", !.log = Len(syncLog) + 1,
                            !.second = resync[u].armed]]
             /\ resync' = [resync EXCEPT ![u] =
                            IF resync[u].armed
                            THEN [armed |-> FALSE, notes |-> notes, access |-> noteAccess,
                                  notebooks |-> {<<r.user_id, r.notebook_guid>> : r \in notebooks}]
                            ELSE Unarmed]
             /\ toggleResponse' = NoResponse
             /\ userLastSync' = [userLastSync EXCEPT ![u] = Len(syncLog) + 1]
             /\ UNCHANGED << remoteVars, paging, stock, toggles, faults, notebooks, notes, noteAccess,
                             tags, noteTags, observed >>

\* ------------------------------------------------------------------------
\* full_sync_user, step by step
\* ------------------------------------------------------------------------
\* full_sync_user up to the first commit: the auth check and the STARTED row
StartPass(u) ==
    /\ pass[u].pc = "idle"
    /\ Len(syncLog) < MaxPasses
    /\ \E is_evernote_connected \in Outcomes :
        IF ~is_evernote_connected
        THEN /\ pass' = [pass EXCEPT ![u] = [IdleFrame EXCEPT
                            !.result = [NoResult EXCEPT !.kind = "raised", !.error = "ValueError"]]]
             /\ faults' = faults + 1
             /\ toggleResponse' = NoResponse
             /\ UNCHANGED << remoteVars, paging, stock, toggles, dbVars, observed, resync >>
        ELSE /\ syncLog' = Append(syncLog,
                    [id |-> Len(syncLog) + 1, user_id |-> u, sync_type |-> "FULL",
                     status |-> "STARTED", notes_synced |-> 0, notebooks_synced |-> 0,
                     error_message |-> None, finished_at |-> NoTime])
             /\ pass' = [pass EXCEPT ![u] = [IdleFrame EXCEPT
                            !.pc = "own", !.log = Len(syncLog) + 1,
                            !.second = resync[u].armed]]
             /\ resync' = [resync EXCEPT ![u] =
                            IF resync[u].armed
                            THEN [armed |-> FALSE, notes |-> notes, access |-> noteAccess,
                                  notebooks |-> {<<r.user_id, r.notebook_guid>> : r \in notebooks}]
                            ELSE Unarmed]
             /\ toggleResponse' = NoResponse
             /\ UNCHANGED << remoteVars, paging, stock, toggles, faults, notebooks, notes, noteAccess,
                             tags, noteTags, userLastSync, observed >>

\* sync_own_notebooks
SyncOwnNotebooks(u) ==
    LET p == pass[u]
        listing == OwnNotebooks(u)
        after == UpsertOwnAll(notebooks, u, listing, Len(listing), Now(p))
    IN /\ p.pc = "own"
       /\ \E ok \in Outcomes :
            IF ok
            THEN /\ notebooks' = after
                 /\ pass' = [pass EXCEPT ![u] = [p EXCEPT !.pc = "linked",
                        !.own = [i \in 1..Len(listing) |-> NotebookHandle(after, u, listing[i].guid)]]]
                 /\ UNCHANGED << syncLog, resync, noteAccess, faults >>
            ELSE /\ Fail(u, "listNotebooks failed")
                 /\ noteAccess' = noteAccess \cup p.pending
                 /\ UNCHANGED notebooks
       /\ UNCHANGED << remoteVars, paging, stock, toggleVars, notes, tags, noteTags, userLastSync, observed >>

\* sync_linked_notebooks; a remote call may raise after n notebooks were upserted
SyncLinkedNotebooks(u) ==
    LET p == pass[u]
        listing == LinkedNotebooks(u)
    IN /\ p.pc = "linked"
       /\ \E ok \in Outcomes, n \in 0..Len(listing) :
            IF ok
            THEN LET after == UpsertLinkedAll(notebooks, u, listing, Len(listing), Now(p))
                     handles == [i \in 1..Len(listing) |->
                                    NotebookHandle(after, u, listing[i].notebookGuid)]
                 IN /\ notebooks' = after
                    /\ pass' = [pass EXCEPT ![u] = [p EXCEPT
                            !.linked = handles, !.nbIdx = 1, !.offset = 0,
                            !.pc = IF Len(p.own) + Len(listing) = 0 THEN "finish" ELSE "list"]]
                    /\ UNCHANGED << syncLog, resync, noteAccess, faults >>
            ELSE /\ notebooks' = UpsertLinkedAll(notebooks, u, listing,
                                                 IF n = Len(listing) THEN 0 ELSE n, Now(p))
                 /\ Fail(u, SharedStoreError)
                 /\ noteAccess' = noteAccess \cup p.pending
       /\ UNCHANGED << remoteVars, paging, stock, toggleVars, notes, tags, noteTags, userLastSync, observed >>

\* ListPage when a notebook that is skipped is stamped as synced
ListPageStampSkipped(u) ==
    LET p == pass[u]
        notebook == AllNotebooks(p)[p.nbIdx]
        page == PageOf(notebook.notebook_guid, p.offset, BatchSize)
    IN /\ p.pc = "list"
       /\ IF p.offset = 0 /\ ~notebook.sync_enabled
          THEN /\ pass' = [pass EXCEPT ![u] = NextNotebook(p, 0)]
               /\ notebooks' = {IF r.id = notebook.id
                                THEN [r EXCEPT !.last_sync_at = Now(p), !.updated_at = Now(p)]
                                ELSE r : r \in notebooks}
               /\ UNCHANGED << syncLog, resync, noteAccess, faults >>
          ELSE \E ok \in Outcomes :
                IF ~ok
                THEN /\ Fail(u, "findNotesMetadata failed")
                     /\ noteAccess' = noteAccess \cup p.pending
                     /\ UNCHANGED notebooks
                ELSE /\ pass' = [pass EXCEPT ![u] =
                            IF page = << >>
                            THEN [p EXCEPT !.pc = "finish_nb"]
                            ELSE [p EXCEPT !.pc = "lookup", !.page = page, !.noteIdx = 1,
                                    !.totalNotes = Len(RemoteNotes(notebook.notebook_guid))]]
                     /\ UNCHANGED << syncLog, resync, noteAccess, faults, notebooks >>
       /\ UNCHANGED << remoteVars, paging, stock, toggleVars, notes, tags, noteTags,
                       userLastSync, observed >>

\* sync_notes_in_notebook from its entry (offset 0) or from the top of its
\* while loop, up to the answer of findNotesMetadata
ListPage(u) ==
    LET p == pass[u]
        notebook == AllNotebooks(p)[p.nbIdx]
        page == PageOf(notebook.notebook_guid, p.offset, BatchSize)
    IN /\ p.pc = "list"
       /\ IF p.offset = 0 /\ ~notebook.sync_enabled
          THEN /\ pass' = [pass EXCEPT ![u] = NextNotebook(p, 0)]
               /\ UNCHANGED << syncLog, resync, noteAccess, faults >>
          ELSE \E ok \in Outcomes :
                IF ~ok
                THEN /\ Fail(u, "findNotesMetadata failed")
                     /\ noteAccess' = noteAccess \cup p.pending
                ELSE /\ pass' = [pass EXCEPT ![u] =
                            IF page = << >>
                            THEN [p EXCEPT !.pc = "finish_nb"]
                            ELSE [p EXCEPT !.pc = "lookup", !.page = page, !.noteIdx = 1,
                                    !.totalNotes = Len(RemoteNotes(notebook.notebook_guid))]]
                     /\ UNCHANGED << syncLog, resync, noteAccess, faults >>
       /\ UNCHANGED << remoteVars, paging, stock, toggleVars, notebooks, notes, tags, noteTags,
                       userLastSync, observed >>

\* _sync_single_note up to the result of its select
SelectExisting(u) ==
    LET p == pass[u]
    IN /\ p.pc = "lookup"
       /\ pass' = [pass EXCEPT ![u] = [p EXCEPT !.pc = "note",
                        !.existing = LookupNote(notes, p.page[p.noteIdx], u)]]
       /\ UNCHANGED << remoteVars, paging, stock, toggleVars, faults, dbVars, observed, resync >>

\* the rest of _sync_single_note: grant, fetch, compare, write, commit
SyncSingleNote(u) ==
    LET p == pass[u]
        guid == p.page[p.noteIdx]
        notebook == AllNotebooks(p)[p.nbIdx]
        existing == p.existing
        en_note == GetNote(guid)
        session == noteAccess \cup p.pending
    IN /\ p.pc = "note"
       /\ \E ok \in Outcomes :
            IF existing.found
            THEN LET granted == _ensure_note_access(session, existing.id, u, Now(p))
                 IN IF ~ok
                    THEN /\ Fail(u, "getNote failed")
                         /\ noteAccess' = granted
                         /\ UNCHANGED << notes, tags, noteTags, observed >>
                    ELSE IF Unchanged(existing, en_note)
                    THEN /\ pass' = [pass EXCEPT ![u] =
                                AfterNote([p EXCEPT !.pending = granted \ noteAccess], FALSE)]
                         /\ observed' = observed \cup {<<guid, u>>}
                         /\ UNCHANGED << notes, tags, noteTags, noteAccess, syncLog, resync,
                                         faults >>
                    ELSE \E failing \in TagFailures(tags, en_note.tagGuids) :
                         LET t == _sync_note_tags([tags |-> tags, noteTags |-> noteTags],
                                        existing.id, en_note.tagGuids,
                                        Len(en_note.tagGuids), failing)
                         IN /\ notes' = {IF n.id = existing.id
                                         THEN RefreshNote(n, existing, en_note, Now(p))
                                         ELSE n : n \in notes}
                            /\ tags' = t.tags
                            /\ noteTags' = t.noteTags
                            /\ noteAccess' = granted
                            /\ pass' = [pass EXCEPT ![u] =
                                            AfterNote([p EXCEPT !.pending = {}], TRUE)]
                            /\ observed' = observed \cup {<<guid, u>>}
                            /\ faults' = faults + Cardinality(failing)
                            /\ UNCHANGED << syncLog, resync >>
            ELSE IF ~ok
            THEN /\ Fail(u, "getNote failed")
                 /\ noteAccess' = session
                 /\ UNCHANGED << notes, tags, noteTags, observed >>
            ELSE IF UniqueViolation(notes, guid)
            THEN \* db.flush() raises IntegrityError and the transaction is rolled
                 \* back; the commit of the except branch then raises as well
                 /\ pass' = [pass EXCEPT ![u] = [IdleFrame EXCEPT
                                !.result = Raised(p, "PendingRollbackError")]]
                 /\ resync' = [resync EXCEPT ![u] = Unarmed]
                 /\ UNCHANGED << notes, tags, noteTags, noteAccess, syncLog, observed, faults >>
            ELSE \E failing \in TagFailures(tags, en_note.tagGuids) :
                 LET note == NewNote(notes, guid, notebook, u, en_note, Now(p))
                     t == _sync_note_tags([tags |-> tags, noteTags |-> noteTags], note.id,
                                          en_note.tagGuids, Len(en_note.tagGuids), failing)
                 IN /\ notes' = notes \cup {note}
                    /\ noteAccess' = _ensure_note_access(session, note.id, u, Now(p))
                    /\ tags' = t.tags
                    /\ noteTags' = t.noteTags
                    /\ pass' = [pass EXCEPT ![u] = AfterNote([p EXCEPT !.pending = {}], TRUE)]
                    /\ observed' = observed \cup {<<guid, u>>}
                    /\ faults' = faults + Cardinality(failing)
                    /\ UNCHANGED << syncLog, resync >>
       /\ UNCHANGED << remoteVars, paging, stock, toggleVars, notebooks, userLastSync >>

\* FinishNotebook when the commit writes back every column of the object the
\* pass loaded, the flag it read included
FinishNotebookWriteBack(u) ==
    LET p == pass[u]
        notebook == AllNotebooks(p)[p.nbIdx]
    IN /\ p.pc = "finish_nb"
       /\ notebooks' = {IF r.id = notebook.id
                        THEN [r EXCEPT !.sync_enabled = notebook.sync_enabled,
                                       !.last_sync_at = Now(p), !.updated_at = Now(p)]
                        ELSE r : r \in notebooks}
       /\ noteAccess' = noteAccess \cup p.pending
       /\ pass' = [pass EXCEPT ![u] = NextNotebook([p EXCEPT !.pending = {}], p.total_synced)]
       /\ UNCHANGED << remoteVars, paging, stock, toggleVars, faults, notes, tags, noteTags, syncLog,
                       userLastSync, observed, resync >>

\* the end of sync_notes_in_notebook: last_sync_at and the commit
FinishNotebook(u) ==
    LET p == pass[u]
        notebook == AllNotebooks(p)[p.nbIdx]
    IN /\ p.pc = "finish_nb"
       /\ notebooks' = {IF r.id = notebook.id
                        THEN [r EXCEPT !.last_sync_at = Now(p), !.updated_at = Now(p)]
                        ELSE r : r \in notebooks}
       /\ noteAccess' = noteAccess \cup p.pending
       /\ pass' = [pass EXCEPT ![u] = NextNotebook([p EXCEPT !.pending = {}], p.total_synced)]
       /\ UNCHANGED << remoteVars, paging, stock, toggleVars, faults, notes, tags, noteTags, syncLog,
                       userLastSync, observed, resync >>

\* the success branch of full_sync_user
FinishPass(u) ==
    LET p == pass[u]
    IN /\ p.pc = "finish"
       /\ userLastSync' = [userLastSync EXCEPT ![u] = Now(p)]
       /\ syncLog' = [syncLog EXCEPT ![p.log] = [@ EXCEPT
                        !.status = "SUCCESS", !.notebooks_synced = Len(AllNotebooks(p)),
                        !.notes_synced = p.total_notes, !.finished_at = Now(p)]]
       /\ noteAccess' = noteAccess \cup p.pending
       /\ pass' = [pass EXCEPT ![u] = [IdleFrame EXCEPT !.result =
                        [kind |-> "summary", error |-> None, log |-> p.log,
                         notebooks |-> Len(AllNotebooks(p)), own |-> Len(p.own),
                         shared |-> Len(p.linked), notes |-> p.total_notes,
                         resync |-> p.second /\ p.clean]]]
       /\ resync' = [resync EXCEPT ![u] = [Unarmed EXCEPT !.armed = p.clean]]
       /\ UNCHANGED << remoteVars, paging, stock, toggleVars, faults, notebooks, notes, tags, noteTags,
                       observed >>

\* ------------------------------------------------------------------------
\* The environment
\* ------------------------------------------------------------------------
\* every running pass has seen a change
Disturbed(frames) ==
    [u \in Users |-> IF frames[u].pc = "idle" THEN frames[u]
                     ELSE [frames[u] EXCEPT !.clean = FALSE]]

\* the remote owner edits a note: its title or its payload changes
RemoteEdit ==
    /\ edits < MaxRemoteEdits
    /\ edits' = edits + 1
    /\ \E g \in Guids : \E c \in Contents : \E t \in Titles :
        /\ <<c, t>> # <<remoteContent[g], remoteTitle[g]>>
        /\ remoteContent' = [remoteContent EXCEPT ![g] = c]
        /\ remoteTitle' = [remoteTitle EXCEPT ![g] = t]
    /\ pass' = Disturbed(pass)
    /\ resync' = [u \in Users |-> [resync[u] EXCEPT !.armed = FALSE]]
    /\ UNCHANGED << remoteNotebook, remoteShared, remotePrivilege, paging, stock, toggleVars, faults,
                    dbVars, observed >>

\* the remote owner moves a note to another notebook of the account, or
\* deletes it (no notebook lists it any more)
RemoteMove ==
    /\ edits < MaxRemoteEdits
    /\ edits' = edits + 1
    /\ \E g \in Guids : \E nb \in {"Research", "Private", None} \ {remoteNotebook[g]} :
        remoteNotebook' = [remoteNotebook EXCEPT ![g] = nb]
    /\ pass' = Disturbed(pass)
    /\ resync' = [u \in Users |-> [resync[u] EXCEPT !.armed = FALSE]]
    /\ UNCHANGED << remoteContent, remoteTitle, remoteShared, remotePrivilege, paging, stock, toggleVars, faults,
                    dbVars, observed >>

\* the remote owner stops sharing notebook Research
RemoteUnshare ==
    /\ edits < MaxRemoteEdits
    /\ edits' = edits + 1
    /\ remoteShared
    /\ remoteShared' = FALSE
    /\ pass' = Disturbed(pass)
    /\ resync' = [u \in Users |-> [resync[u] EXCEPT !.armed = FALSE]]
    /\ UNCHANGED << remoteContent, remoteTitle, remoteNotebook, remotePrivilege, paging, stock, toggleVars, faults,
                    dbVars, observed >>

\* a remote note loses its payload: getNote answers with content None
RemoteClear ==
    /\ edits < MaxRemoteEdits
    /\ edits' = edits + 1
    /\ \E g \in Guids :
        /\ remoteContent[g] # None
        /\ remoteContent' = [remoteContent EXCEPT ![g] = None]
    /\ pass' = Disturbed(pass)
    /\ resync' = [u \in Users |-> [resync[u] EXCEPT !.armed = FALSE]]
    /\ UNCHANGED << remoteTitle, remoteNotebook, remoteShared, remotePrivilege, paging, stock, toggleVars, faults,
                    dbVars, observed >>

\* the remote owner changes the privilege of the share of notebook Research
RemoteRegrant ==
    /\ edits < MaxRemoteEdits
    /\ edits' = edits + 1
    /\ \E code \in (1..3) \ {remotePrivilege} : remotePrivilege' = code
    /\ pass' = Disturbed(pass)
    /\ resync' = [u \in Users |-> [resync[u] EXCEPT !.armed = FALSE]]
    /\ UNCHANGED << remoteContent, remoteTitle, remoteNotebook, remoteShared, paging, stock, toggleVars,
                    faults, dbVars, observed >>

\* the top of the while loop of sync_notes_in_notebook over a long listing:
\* findNotesMetadata answers with the page at the offset and the total
PagingList ==
    LET page == PageOfListing(LongListing(paging.total), paging.offset, BatchSize)
    IN /\ paging.pc = "list"
       /\ paging' = [paging EXCEPT
                !.requests = Append(@, paging.offset), !.page = page,
                !.totalNotes = paging.total,
                !.noteIdx = IF page = << >> THEN 0 ELSE 1,
                !.pc = IF page = << >> THEN "finish_nb" ELSE "lookup"]
       /\ UNCHANGED << remoteVars, stock, toggleVars, faults, dbVars, pass, observed, resync >>

\* one turn of the for loop over the page, and the offset arithmetic that
\* follows the last note of a page; every listed note counts as synced
PagingNote ==
    /\ paging.pc = "lookup"
    /\ paging' = AfterNote([paging EXCEPT !.processed = Append(@, paging.page[paging.noteIdx])],
                           TRUE)
    /\ UNCHANGED << remoteVars, stock, toggleVars, faults, dbVars, pass, observed, resync >>

\* the clock outside a pass: the time of the latest pass
Clock == Len(syncLog)

\* toggle_notebook_sync when it always disables
ToggleRowDisable(nb) == [nb EXCEPT !.sync_enabled = FALSE, !.updated_at = Clock]

\* nb.sync_enabled = not nb.sync_enabled, flushed as an UPDATE of the row:
\* updated_at has onupdate=datetime.utcnow
ToggleRow(nb) == [nb EXCEPT !.sync_enabled = ~nb.sync_enabled, !.updated_at = Clock]

\* toggle_notebook_sync(notebook_id): 404 when db.get finds no row, else the
\* flag is flipped, committed and returned
toggle_notebook_sync ==
    /\ toggles < MaxToggles
    /\ \E notebook_id \in 1..(Cardinality(notebooks) + 1) :
        LET found == {nb \in notebooks : nb.id = notebook_id}
        IN IF found = {}
           THEN /\ toggleResponse' = [status |-> 404, notebook_id |-> notebook_id,
                                      sync_enabled |-> FALSE]
                /\ UNCHANGED << toggles, notebooks, pass, resync >>
           ELSE LET nb == CHOOSE nb \in found : TRUE
                IN /\ toggles' = toggles + 1
                   /\ notebooks' = (notebooks \ {nb}) \cup {ToggleRow(nb)}
                   /\ toggleResponse' = [status |-> 200, notebook_id |-> nb.id,
                                         sync_enabled |-> ToggleRow(nb).sync_enabled]
                   /\ pass' = Disturbed(pass)
                   /\ resync' = [u \in Users |-> [resync[u] EXCEPT !.armed = FALSE]]
    /\ UNCHANGED << remoteVars, paging, stock, faults, notes, noteAccess, tags, noteTags, syncLog,
                    userLastSync, observed >>

\* list_notes when the query does not join note_access
list_notes_no_join(user_id) == {n \in notes : ~n.is_deleted}

\* list_notes(user_id) with no filter: the notes joined to the user by a
\* NoteAccess row and not flagged deleted
list_notes(user_id) ==
    {n \in notes : /\ \E a \in noteAccess : a.note_id = n.id /\ a.user_id = user_id
                   /\ ~n.is_deleted}

\* ------------------------------------------------------------------------
\* Specifications
\* ------------------------------------------------------------------------
\* a pass that starts while no other user's pass is running
StartPassAlone(u) ==
    /\ \A v \in Users \ {u} : pass[v].pc = "idle"
    /\ StartPass(u)

\* no pass is running
Quiescent == \A u \in Users : pass[u].pc = "idle"

\* a remote edit between two passes
RemoteEditBetweenPasses == Quiescent /\ RemoteEdit

\* a toggle between two passes
ToggleBetweenPasses == Quiescent /\ toggle_notebook_sync

\* passes run one after the other, and the world changes between them
Next ==
    \/ \E u \in Users : StartPassAlone(u)
    \/ \E u \in Users : SyncOwnNotebooks(u)
    \/ \E u \in Users : SyncLinkedNotebooks(u)
    \/ \E u \in Users : ListPage(u)
    \/ \E u \in Users : SelectExisting(u)
    \/ \E u \in Users : SyncSingleNote(u)
    \/ \E u \in Users : FinishNotebook(u)
    \/ \E u \in Users : FinishPass(u)
    \/ RemoteEditBetweenPasses
    \/ ToggleBetweenPasses

Spec == Init /\ [][Next]_vars

\* passes of different users run concurrently
NextConc ==
    \/ \E u \in Users : StartPass(u)
    \/ \E u \in Users : SyncOwnNotebooks(u)
    \/ \E u \in Users : SyncLinkedNotebooks(u)
    \/ \E u \in Users : ListPage(u)
    \/ \E u \in Users : SelectExisting(u)
    \/ \E u \in Users : SyncSingleNote(u)
    \/ \E u \in Users : FinishNotebook(u)
    \/ \E u \in Users : FinishPass(u)

SpecConc == Init /\ [][NextConc]_vars

\* a remote note moves or is deleted between two passes
RemoteMoveBetweenPasses == Quiescent /\ RemoteMove

\* the share ends between two passes
RemoteUnshareBetweenPasses == Quiescent /\ RemoteUnshare

\* a remote payload goes away between two passes
RemoteClearBetweenPasses == Quiescent /\ RemoteClear

\* the privilege of the share changes between two passes
RemoteRegrantBetweenPasses == Quiescent /\ RemoteRegrant

\* passes run one after the other, and the remote account is edited and
\* reorganised between them
NextRemote ==
    \/ \E u \in Users : StartPassAlone(u)
    \/ \E u \in Users : SyncOwnNotebooks(u)
    \/ \E u \in Users : SyncLinkedNotebooks(u)
    \/ \E u \in Users : ListPage(u)
    \/ \E u \in Users : SelectExisting(u)
    \/ \E u \in Users : SyncSingleNote(u)
    \/ \E u \in Users : FinishNotebook(u)
    \/ \E u \in Users : FinishPass(u)
    \/ RemoteEditBetweenPasses
    \/ RemoteMoveBetweenPasses
    \/ RemoteUnshareBetweenPasses
    \/ RemoteClearBetweenPasses
    \/ RemoteRegrantBetweenPasses

SpecRemote == Init /\ [][NextRemote]_vars

\* passes run one after the other, and notebooks are toggled at any moment,
\* also while a pass is running
NextToggle ==
    \/ \E u \in Users : StartPassAlone(u)
    \/ \E u \in Users : SyncOwnNotebooks(u)
    \/ \E u \in Users : SyncLinkedNotebooks(u)
    \/ \E u \in Users : ListPage(u)
    \/ \E u \in Users : SelectExisting(u)
    \/ \E u \in Users : SyncSingleNote(u)
    \/ \E u \in Users : FinishNotebook(u)
    \/ \E u \in Users : FinishPass(u)
    \/ toggle_notebook_sync

SpecToggle == Init /\ [][NextToggle]_vars

\* sync_notes_in_notebook entered for a sync-enabled notebook whose listing
\* has total notes
InitPaging ==
    /\ InitTables
    /\ \E total \in 0..MaxListed : paging = [PagingOff EXCEPT !.pc = "list", !.total = total]
    /\ stock = StockOff

\* the loop of sync_notes_in_notebook
NextPaging == PagingList \/ PagingNote

\* the loop runs on as long as it has a step to take
SpecPaging == InitPaging /\ [][NextPaging]_vars /\ WF_vars(NextPaging)

\* ------------------------------------------------------------------------
\* The stock collector: sync_company_listing and sync_all_prices, one call at
\* a time, each on a session of its own
\* ------------------------------------------------------------------------
\* datetime.utcnow() during a call of the collector: the number of the call
StockNow == stock.runs

\* the record of a call that ended: what it raised (None when it returned),
\* what it returned, and its StockSyncLog object as the call left it
EndedCall(run, raised, value) ==
    [id |-> run.log.id, op |-> run.op, raised |-> raised, value |-> value,
     log |-> run.log, outcomes |-> run.outcomes]

\* sync_company_listing up to its for loop: the STARTED object is added and
\* flushed, then the listing is fetched; it raises, is empty, or has rows
StartCompanyListing ==
    /\ stock.run.pc = "idle"
    /\ stock.runs < MaxRuns
    /\ \E rows \in -1..MaxCompanies :
        LET log == NewStockSyncLog(stock.runs + 1, "LISTING")
            run == [StockIdle EXCEPT !.op = "sync_company_listing", !.log = log]
        IN stock' = [stock EXCEPT
                !.runs = @ + 1,
                !.run = IF rows = -1
                        THEN [run EXCEPT !.pc = "except", !.error = ListingSourceError]
                        ELSE IF rows = 0
                        THEN [run EXCEPT !.pc = "except", !.error = EmptyListingError]
                        ELSE [run EXCEPT !.pc = "rows", !.rows = rows, !.idx = 1,
                                         !.log.target_count = rows]]
    /\ UNCHANGED << remoteVars, paging, toggleVars, faults, dbVars, pass, observed, resync >>

\* one turn of the for loop of sync_company_listing: the row is skipped for
\* its code, or its upsert is executed; the upsert fails when the database
\* refuses it, and when an earlier failure has aborted the transaction
ListingRow ==
    LET run == stock.run
    IN /\ run.pc = "rows"
       /\ \E row \in {"skipped", "saved", "refused"} :
            LET fails == run.aborted \/ row = "refused"
                turn == IF row = "skipped" THEN run
                        ELSE IF fails
                        THEN [run EXCEPT !.errors = @ + 1, !.aborted = TRUE]
                        ELSE [run EXCEPT !.synced = @ + 1, !.upserts = @ \cup {run.idx}]
            IN stock' = [stock EXCEPT !.run =
                    [turn EXCEPT !.idx = @ + 1,
                                 !.pc = IF run.idx = run.rows THEN "commit" ELSE "rows"]]
       /\ UNCHANGED << remoteVars, paging, toggleVars, faults, dbVars, pass, observed, resync >>

\* the commit that follows the for loop of sync_company_listing: it stores
\* the STARTED row and the upserts; on an aborted transaction the database
\* answers COMMIT with a rollback and no error, and both are lost
ListingCommit ==
    LET run == stock.run
    IN /\ run.pc = "commit"
       /\ stock' = [stock EXCEPT
                !.log = IF run.aborted THEN @ ELSE WriteLog(@, run.log),
                !.companies = IF run.aborted THEN @ ELSE @ \cup run.upserts,
                !.run = [run EXCEPT !.pc = "success", !.aborted = FALSE, !.upserts = {}]]
       /\ UNCHANGED << remoteVars, paging, toggleVars, faults, dbVars, pass, observed, resync >>

\* the end of the try body of sync_company_listing: counts, SUCCESS and finish
\* time, commit, return; the flush of the commit fails when the row of the
\* object is not in the table
ListingSucceed ==
    LET run == stock.run
        log == SuccessBranch(run.log, run.synced, run.errors, StockNow)
        done == [run EXCEPT !.log = log]
    IN /\ run.pc = "success"
       /\ run.op = "sync_company_listing"
       /\ stock' = IF HasRow(stock.log, log.id)
                   THEN [stock EXCEPT
                            !.log = WriteLog(@, log),
                            !.run = StockIdle,
                            !.ended = Append(@, EndedCall(done, None,
                                [synced |-> run.synced, errors |-> run.errors,
                                 total |-> log.target_count]))]
                   ELSE [stock EXCEPT
                            !.run = [done EXCEPT !.pc = "except", !.deactive = TRUE,
                                                 !.error = StaleDataError]]
       /\ UNCHANGED << remoteVars, paging, toggleVars, faults, dbVars, pass, observed, resync >>

\* sync_all_prices up to its for loop: the STARTED object is added and
\* flushed, the active companies are selected in the order of their codes
StartAllPrices ==
    /\ stock.run.pc = "idle"
    /\ stock.runs < MaxRuns
    /\ LET log == NewStockSyncLog(stock.runs + 1, "OHLCV")
           companies == CompaniesByCode(stock.companies)
       IN stock' = [stock EXCEPT
                !.runs = @ + 1,
                !.run = [StockIdle EXCEPT
                            !.op = "sync_all_prices",
                            !.log = [log EXCEPT !.target_count = Len(companies)],
                            !.companies = companies,
                            !.idx = 1,
                            !.pc = IF companies = << >> THEN "success" ELSE "companies"]]
    /\ UNCHANGED << remoteVars, paging, toggleVars, faults, dbVars, pass, observed, resync >>

\* one turn of the for loop of sync_all_prices: sync_prices for one company.
\* In an aborted transaction its first select raises. Otherwise it returns
\* without a commit when FDR has no data, stores the prices and commits (the
\* flushed log row with them), or raises; a refused statement aborts the
\* transaction. The loop counts what was raised and goes on.
SyncPrices ==
    LET run == stock.run
    IN /\ run.pc = "companies"
       /\ \E out \in PriceOutcomes :
            LET raises == run.aborted \/ out.kind # "synced"
                turn == IF raises
                        THEN [run EXCEPT
                                !.errors = @ + 1,
                                !.aborted = @ \/ out.kind = "database_error",
                                !.outcomes = Append(@, [raised |-> TRUE, synced |-> 0])]
                        ELSE [run EXCEPT
                                !.synced = @ + out.synced,
                                !.outcomes = Append(@, [raised |-> FALSE,
                                                        synced |-> out.synced])]
            IN stock' = [stock EXCEPT
                    !.log = IF ~raises /\ out.synced > 0 THEN WriteLog(@, run.log) ELSE @,
                    !.run = [turn EXCEPT
                                !.idx = @ + 1,
                                !.pc = IF run.idx = Len(run.companies)
                                       THEN "success" ELSE "companies"]]
       /\ UNCHANGED << remoteVars, paging, toggleVars, faults, dbVars, pass, observed, resync >>

\* the end of the try body of sync_all_prices: counts, SUCCESS and finish
\* time, commit, return; in an aborted transaction the flush of the commit
\* is refused
AllPricesSucceed ==
    LET run == stock.run
        log == SuccessBranch(run.log, run.synced, run.errors, StockNow)
        done == [run EXCEPT !.log = log]
    IN /\ run.pc = "success"
       /\ run.op = "sync_all_prices"
       /\ stock' = IF run.aborted
                   THEN [stock EXCEPT
                            !.run = [done EXCEPT !.pc = "except", !.deactive = TRUE,
                                                 !.aborted = FALSE,
                                                 !.error = FailedTransactionError]]
                   ELSE [stock EXCEPT
                            !.log = WriteLog(@, log),
                            !.run = StockIdle,
                            !.ended = Append(@, EndedCall(done, None,
                                [companies |-> Len(run.companies),
                                 total_synced |-> run.synced,
                                 errors |-> run.errors]))]
       /\ UNCHANGED << remoteVars, paging, toggleVars, faults, dbVars, pass, observed, resync >>

\* the except branch of sync_company_listing and of sync_all_prices: FAILED,
\* the cut error text and the finish time are assigned and committed, and the
\* exception is raised again; on a session whose flush has failed the commit
\* raises instead and nothing is stored
StockExcept ==
    LET run == stock.run
        log == ExceptBranch(run.log, run.error, StockNow)
        done == [run EXCEPT !.log = log]
    IN /\ run.pc = "except"
       /\ stock' = IF run.deactive
                   THEN [stock EXCEPT
                            !.run = StockIdle,
                            !.ended = Append(@, EndedCall(done, PendingRollbackError, << >>))]
                   ELSE [stock EXCEPT
                            !.log = WriteLog(@, log),
                            !.run = StockIdle,
                            !.ended = Append(@, EndedCall(done, run.error, << >>))]
       /\ UNCHANGED << remoteVars, paging, toggleVars, faults, dbVars, pass, observed, resync >>

\* the calls of the stock collector, one at a time
NextStock ==
    \/ StartCompanyListing
    \/ ListingRow
    \/ ListingCommit
    \/ ListingSucceed
    \/ StartAllPrices
    \/ SyncPrices
    \/ AllPricesSucceed
    \/ StockExcept

SpecStock == Init /\ [][NextStock]_vars

\* ------------------------------------------------------------------------
\* Types
\* ------------------------------------------------------------------------
TypeOK ==
    /\ edits \in 0..MaxRemoteEdits
    /\ toggles \in 0..MaxToggles
    /\ toggleResponse.status \in {0, 200, 404}
    /\ faults \in 0..MaxFaults
    /\ Len(syncLog) <= MaxPasses
    /\ \A u \in Users : pass[u].pc \in
            {"idle", "own", "linked", "list", "lookup", "note", "finish_nb", "finish"}

\* ------------------------------------------------------------------------
\* Vocabulary of the properties
\* ------------------------------------------------------------------------
\* the Note rows that carry a remote identifier
NoteRowsOf(g) == {n \in notes : n.evernote_guid = g}

\* a committed NoteAccess row joins user u to a Note row of g
HasAccess(g, u) ==
    \E n \in NoteRowsOf(g) : \E a \in noteAccess : a.note_id = n.id /\ a.user_id = u

\* the session of u (committed rows and its own pending ones) joins u to a row of g
HasAccessInSession(g, u) ==
    \E n \in NoteRowsOf(g) : \E a \in noteAccess \cup pass[u].pending :
        a.note_id = n.id /\ a.user_id = u /\ a.access_type = "SYNC"

\* a pass of u has gone through a whole notebook that lists g
SyncedNotebookWith(u, g) ==
    \E r \in notebooks : /\ r.user_id = u
                         /\ r.last_sync_at # NoTime
                         /\ g \in Range(RemoteNotes(r.notebook_guid))

\* the note the pass of u is working on
CurrentGuid(u) == pass[u].page[pass[u].noteIdx]

\* ------------------------------------------------------------------------
\* Properties
\* ------------------------------------------------------------------------
\* C1 - Global note uniqueness.  In every state there is at most one Note row
\* per remote identifier; when passes run one after the other no insert ever
\* meets an existing row; and once two different users have each gone through
\* a notebook that lists N, there is exactly one Note row for N and both users
\* hold a NoteAccess row for it.
C1_GlobalNoteUniqueness ==
    /\ \A g \in Guids : Cardinality(NoteRowsOf(g)) <= 1
    /\ \A u \in Users : pass[u].result.error # "PendingRollbackError"
    /\ \A g \in Guids : \A u1, u2 \in Users :
            (u1 # u2 /\ SyncedNotebookWith(u1, g) /\ SyncedNotebookWith(u2, g))
                => /\ Cardinality(NoteRowsOf(g)) = 1
                   /\ HasAccess(g, u1)
                   /\ HasAccess(g, u2)

\* two users have gone through a notebook with the same note: one row, two grants
C1_Witness ==
    \E g \in Guids :
        /\ SyncedNotebookWith("A", g) /\ SyncedNotebookWith("B", g)
        /\ Cardinality(NoteRowsOf(g)) = 1
        /\ HasAccess(g, "A") /\ HasAccess(g, "B")
        /\ Cardinality({l \in DOMAIN syncLog : syncLog[l].status = "SUCCESS"}) = 2

\* the pass of u has looked N up, found nothing, and another pass has stored N since
LostRace(u) ==
    /\ pass[u].pc = "note"
    /\ ~pass[u].existing.found
    /\ NoteRowsOf(CurrentGuid(u)) # {}

\* C2 - Concurrent first insert.  A pass that looked N up before another pass
\* inserted it does not fail on its own insert: unless the content fetch
\* itself fails, it goes on with the next note and its user holds a grant for N.
C2_ConcurrentFirstInsert ==
    [][\A u \in Users :
        (LostRace(u) /\ pass'[u] # pass[u] /\ pass'[u].result.error # "getNote failed")
            => /\ pass'[u].pc # "idle"
               /\ \E n \in notes' : \E a \in noteAccess' \cup pass'[u].pending :
                    /\ n.evernote_guid = CurrentGuid(u)
                    /\ a.note_id = n.id /\ a.user_id = u]_vars

\* C3 - Every observer gains access.  For every note N and user u such that
\* _sync_single_note has returned normally for N on behalf of u (whether N was
\* inserted, found unchanged or found changed), the session of u holds a
\* NoteAccess row (N, u), and once the pass of u is over the row is committed.
C3_EveryObserverGainsAccess ==
    \A o \in observed :
        /\ HasAccessInSession(o[1], o[2])
        /\ pass[o[2]].pc = "idle" => HasAccess(o[1], o[2])

\* a user whose pass found a note stored by another user's pass holds a grant
C3_Witness ==
    \E n \in notes : \E u \in Users :
        /\ n.source_user_id # u
        /\ <<n.evernote_guid, u>> \in observed
        /\ pass[u].pc = "idle"
        /\ HasAccess(n.evernote_guid, u)

\* the (user, remote notebook identifier) pairs of the Notebook rows
NotebookKeys == {<<r.user_id, r.notebook_guid>> : r \in notebooks}

\* C4 - Idempotent re-sync.  While a pass runs that follows a successful pass
\* of the same user, with no remote change and no toggle since that pass
\* began, no note is counted as synced, the Note rows are the ones the pass
\* found at its start, the NoteAccess rows of its session are the ones it
\* found, and no Notebook row is added; when it has returned, its summary and
\* its SyncLog row report 0 notes.
C4_IdempotentResync ==
    \A u \in Users :
        /\ (pass[u].pc # "idle" /\ pass[u].second /\ pass[u].clean)
            => /\ pass[u].total_synced = 0
               /\ pass[u].total_notes = 0
               /\ notes = resync[u].notes
               /\ noteAccess \cup pass[u].pending = resync[u].access
               /\ NotebookKeys = resync[u].notebooks
        /\ (pass[u].result.kind = "summary" /\ pass[u].result.resync)
            => /\ pass[u].result.notes = 0
               /\ syncLog[pass[u].result.log].notes_synced = 0

\* a second pass with nothing changed has gone through notes and returned
C4_Witness ==
    \E u \in Users :
        /\ pass[u].result.kind = "summary" /\ pass[u].result.resync
        /\ \E g \in Guids : <<g, u>> \in observed
        /\ pass[u].result.notebooks > 0

\* the pass of u is about to finish _sync_single_note for a note it has found
\* stored, and the step it takes is not the failure of the content fetch
FoundStep(u) ==
    /\ pass[u].pc = "note"
    /\ pass[u].existing.found
    /\ pass'[u] # pass[u]
    /\ pass'[u].pc # "idle"

\* the Note row of the note the pass of u is working on, in table rows
CurrentRow(rows, u) == CHOOSE n \in rows : n.id = pass[u].existing.id

\* the stored fingerprint differs from the fingerprint of the remote content
ContentDiffers(u) ==
    pass[u].existing.content_hash # Md5(remoteContent[CurrentGuid(u)])

\* what a changed note looks like after the update, but for the title
RefreshedButTitle(u) ==
    LET g == CurrentGuid(u)
        n == CurrentRow(notes', u)
    IN /\ Cardinality(notes') = Cardinality(notes)
       /\ Cardinality({m \in notes' : m.evernote_guid = g}) = 1
       /\ n.evernote_guid = g
       /\ n.enml_content = remoteContent[g]
       /\ n.plain_text = strip_enml(remoteContent[g])
       /\ n.content_hash = Md5(remoteContent[g])
       /\ n.content_length = (IF RemoteContentLength(remoteContent[g]) = -1 THEN 0
                              ELSE RemoteContentLength(remoteContent[g]))
       /\ n.updated_at = pass[u].log
       /\ pass'[u].total_synced = pass[u].total_synced + 1
       /\ \A m \in notes : m.id # n.id => m \in notes'

\* C5 as stated - Fingerprint-gated update.  A pass that finds N stored with a
\* fingerprint other than that of the remote content overwrites title, raw
\* content, plain text, fingerprint and length on the existing row with the
\* remote values, adds no row, and counts N as updated once.
C5_UpdateOverwritesAll ==
    [][\A u \in Users :
        (FoundStep(u) /\ ContentDiffers(u))
            => /\ RefreshedButTitle(u)
               /\ CurrentRow(notes', u).title = remoteTitle[CurrentGuid(u)]]_vars

\* C5 as amended - as C5, except that the title is overwritten only when the
\* fetched title is not empty; an empty or absent fetched title leaves the
\* stored title in place.  After the update the stored fingerprint is that of
\* the remote content, so a later pass with no further change finds a match.
C5_UpdateOverwritesAllButEmptyTitle ==
    [][\A u \in Users :
        (FoundStep(u) /\ ContentDiffers(u))
            => /\ RefreshedButTitle(u)
               /\ CurrentRow(notes', u).title =
                    (IF remoteTitle[CurrentGuid(u)] = "" THEN pass[u].existing.title
                     ELSE remoteTitle[CurrentGuid(u)])]_vars

\* a note was stored, its remote content then changed and its remote title
\* became empty, a later pass updated the row in place keeping the title, and a
\* pass after that one found nothing to do
C5_Witness ==
    \E n \in notes : \E u \in Users :
        /\ n.updated_at = 2
        /\ n.content_hash = Md5(remoteContent[n.evernote_guid])
        /\ n.enml_content # "<en-note>alpha</en-note>"
        /\ remoteTitle[n.evernote_guid] = ""
        /\ n.title = "T1"
        /\ Cardinality(NoteRowsOf(n.evernote_guid)) = 1
        /\ pass[u].result.kind = "summary"
        /\ pass[u].result.log = 3
        /\ pass[u].result.notes = 0
        /\ syncLog[2].notes_synced = 1
        /\ SyncedNotebookWith(u, n.evernote_guid)
        /\ toggles = 0

\* C6 - No write on fingerprint match.  A pass that finds N stored with the
\* fingerprint of the remote content changes no field of any Note row, whatever
\* the remote title, grants access to its user and does not count N as synced;
\* and a pass that finds N stored with another fingerprint does write the row:
\* the fingerprint comparison alone decides.
C6_NoWriteOnFingerprintMatch ==
    [][\A u \in Users :
        FoundStep(u)
            => IF ContentDiffers(u)
               THEN /\ CurrentRow(notes', u) # CurrentRow(notes, u)
                    /\ pass'[u].total_synced = pass[u].total_synced + 1
               ELSE /\ notes' = notes
                    /\ pass'[u].total_synced = pass[u].total_synced
                    /\ \E a \in noteAccess' \cup pass'[u].pending :
                            a.note_id = pass[u].existing.id /\ a.user_id = u]_vars

\* a pass has returned after the remote title of a stored note changed and its
\* content did not: the stored title is still the old one
C6_Witness ==
    \E n \in notes : \E u \in Users :
        /\ resync[u].armed
        /\ toggles = 0
        /\ SyncedNotebookWith(u, n.evernote_guid)
        /\ remoteTitle[n.evernote_guid] = "T2"
        /\ n.title = "T1"
        /\ n.content_hash = Md5(remoteContent[n.evernote_guid])
        /\ HasAccess(n.evernote_guid, u)

\* a call of the pass of u to the remote service fails in this step
FailingStep(u, pc) ==
    /\ pass[u].pc = pc
    /\ pass'[u] # pass[u]
    /\ faults' = faults + 1

\* C7 - Partial failure isolation per note.  A failure while one note is being
\* synced (its content fetch, or the resolution of one of its tags) is caught
\* at the note: the pass goes on with the other notes and notebooks.
C7_FetchFailureIsolated ==
    [][\A u \in Users : FailingStep(u, "note") => pass'[u].pc # "idle"]_vars

\* C8 as stated - Notebook-level isolation of listing errors.  A failure to
\* list a page of a notebook abandons that notebook only: the pass goes on with
\* the notebooks that come after it.
C8_ListingFailureIsolated ==
    [][\A u \in Users : FailingStep(u, "list") => pass'[u].pc # "idle"]_vars

\* C8 as amended - A failure to list a page of a notebook abandons that
\* notebook's remaining pages and every notebook after it: the failure reaches
\* full_sync_user, which marks the SyncLog row of the pass FAILED with the error
\* text and the finish time, commits what the session holds, and raises to the
\* caller; no Note or Notebook row is written by the failing step.
C8_ListingFailureAbortsPass ==
    [][\A u \in Users :
        FailingStep(u, "list")
            => /\ pass'[u].pc = "idle"
               /\ pass'[u].result.kind = "raised"
               /\ pass'[u].result.error = "findNotesMetadata failed"
               /\ syncLog'[pass[u].log].status = "FAILED"
               /\ syncLog'[pass[u].log].error_message = "findNotesMetadata failed"
               /\ syncLog'[pass[u].log].finished_at # NoTime
               /\ notes' = notes
               /\ notebooks' = notebooks
               /\ noteAccess' = noteAccess \cup pass[u].pending]_vars

\* a pass was aborted by a listing failure on its first notebook, and the
\* notebook that comes after it has never been synced
C8_Witness ==
    \E u \in Users : \E r1, r2 \in notebooks :
        /\ pass[u].result.kind = "raised"
        /\ pass[u].result.error = "findNotesMetadata failed"
        /\ syncLog[pass[u].result.log].status = "FAILED"
        /\ r1.user_id = u /\ r2.user_id = u
        /\ r1.id < r2.id
        /\ r1.sync_enabled /\ r2.sync_enabled
        /\ r1.last_sync_at = NoTime /\ r2.last_sync_at = NoTime
        /\ \A g \in Range(RemoteNotes(r2.notebook_guid)) : NoteRowsOf(g) = {}
        /\ RemoteNotes(r2.notebook_guid) # << >>

\* C9 - Failure keeps prior progress.  When a pass has failed part-way, its
\* SyncLog row is FAILED with an error text, and the access granted for every
\* note the pass had finished with is stored.
C9_FailureKeepsPriorProgress ==
    \A u \in Users :
        (pass[u].result.kind = "raised" /\ pass[u].result.log > 0)
            => /\ syncLog[pass[u].result.log].status = "FAILED"
               /\ syncLog[pass[u].result.log].error_message # None
               /\ syncLog[pass[u].result.log].error_message # ""
               /\ \A o \in observed : o[2] = u => HasAccess(o[1], u)

\* C10 - SyncLog state machine.  In every step: no SyncLog row is deleted; a
\* new row is STARTED with no counts, error text or finish time; a SUCCESS or
\* FAILED row does not change; a STARTED row changes only by becoming SUCCESS
\* or FAILED, and its finish time is set in that same step.
C10_SyncLogStateMachine ==
    [][/\ Len(syncLog') >= Len(syncLog)
       /\ \A i \in DOMAIN syncLog' :
            IF i \in DOMAIN syncLog
            THEN /\ syncLog[i].status \in {"SUCCESS", "FAILED"} => syncLog'[i] = syncLog[i]
                 /\ syncLog'[i] # syncLog[i]
                        => /\ syncLog[i].status = "STARTED"
                           /\ syncLog'[i].status \in {"SUCCESS", "FAILED"}
                           /\ syncLog'[i].finished_at # NoTime
                           /\ syncLog'[i].user_id = syncLog[i].user_id
                           /\ syncLog'[i].id = syncLog[i].id
            ELSE /\ syncLog'[i].status = "STARTED"
                 /\ syncLog'[i].notes_synced = 0
                 /\ syncLog'[i].notebooks_synced = 0
                 /\ syncLog'[i].error_message = None
                 /\ syncLog'[i].finished_at = NoTime]_vars

\* a pass of a user has failed, a later pass of the same user has succeeded,
\* and the row of the failed pass is as the failure left it
C10_Witness ==
    \E i, j \in DOMAIN syncLog :
        /\ i < j
        /\ syncLog[i].user_id = syncLog[j].user_id
        /\ syncLog[i].status = "FAILED"
        /\ syncLog[i].finished_at = i
        /\ syncLog[i].error_message # None
        /\ syncLog[j].status = "SUCCESS"
        /\ syncLog[j].finished_at = j
        /\ syncLog[j].notes_synced > 0

\* C11 - Terminal record regardless of outcome.  Once full_sync_user has
\* returned or raised after writing its STARTED row, that row is SUCCESS or
\* FAILED and carries a finish time.
C11_TerminalRecord ==
    \A u \in Users :
        (pass[u].pc = "idle" /\ pass[u].result.log > 0)
            => /\ syncLog[pass[u].result.log].status \in {"SUCCESS", "FAILED"}
               /\ syncLog[pass[u].result.log].finished_at # NoTime

\* full_sync_user is called for u, whose token is absent or expired
AuthFailureStep(u) ==
    /\ pass[u].pc = "idle"
    /\ pass'[u].pc = "idle"
    /\ pass'[u].result.error = "ValueError"
    /\ faults' = faults + 1
    /\ \A v \in Users \ {u} : pass'[v] = pass[v]

\* C12 - Auth failure writes nothing.  A call of full_sync_user for a user
\* whose token is absent or expired raises at once: no row of any table is
\* created or changed, the SyncLog included, and the user's last-sync
\* timestamp is unchanged.
C12_AuthFailureWritesNothing ==
    [][\A u \in Users :
        AuthFailureStep(u)
            => /\ pass'[u].result.kind = "raised"
               /\ pass'[u].result.log = 0
               /\ notebooks' = notebooks
               /\ notes' = notes
               /\ noteAccess' = noteAccess
               /\ tags' = tags
               /\ noteTags' = noteTags
               /\ syncLog' = syncLog
               /\ userLastSync' = userLastSync]_vars

\* a call has been refused for a user who has synced before: the tables hold
\* rows, and the SyncLog has one row per earlier pass and none for this call
C12_Witness ==
    \E u \in Users :
        /\ pass[u].result.kind = "raised"
        /\ pass[u].result.error = "ValueError"
        /\ Len(syncLog) = 1
        /\ syncLog[1].user_id = u
        /\ syncLog[1].status = "SUCCESS"
        /\ userLastSync[u] = 1
        /\ notes # {}

\* C13 - Failure is recorded and re-raised.  When full_sync_user has raised
\* after writing its STARTED row, that row is FAILED with a finish time and
\* carries the text of the exception the caller got.
C13_FailureRecordedAndReraised ==
    \A u \in Users :
        (pass[u].result.kind = "raised" /\ pass[u].result.log > 0)
            => /\ syncLog[pass[u].result.log].status = "FAILED"
               /\ syncLog[pass[u].result.log].error_message = pass[u].result.error
               /\ syncLog[pass[u].result.log].finished_at # NoTime

\* the pass of u takes the success branch of full_sync_user
SuccessStep(u) ==
    /\ pass[u].pc = "finish"
    /\ pass'[u] # pass[u]

\* the Note rows written (inserted or updated) by the pass with SyncLog id log
WrittenBy(rows, log) == {n \in rows : n.updated_at = log}

\* C14 - Success summary.  When a pass completes, its SyncLog row becomes
\* SUCCESS with a finish time, the user's last-sync timestamp is set, the
\* summary has notebooks = own + shared with own and shared the numbers of own
\* and linked notebooks of the user, notes is the number of notes the pass
\* inserted or updated, and the SyncLog row carries the same two counts.
C14_SuccessSummary ==
    [][\A u \in Users :
        SuccessStep(u)
            => LET r == pass'[u].result
                   row == syncLog'[pass[u].log]
               IN /\ pass'[u].pc = "idle"
                  /\ r.kind = "summary"
                  /\ r.log = pass[u].log
                  /\ row.status = "SUCCESS"
                  /\ row.finished_at # NoTime
                  /\ userLastSync'[u] = Now(pass[u])
                  /\ r.notebooks = r.own + r.shared
                  /\ r.own = Len(OwnNotebooks(u))
                  /\ r.shared = Len(LinkedNotebooks(u))
                  /\ r.notes = Cardinality(WrittenBy(notes', pass[u].log))
                  /\ row.notebooks_synced = r.notebooks
                  /\ row.notes_synced = r.notes]_vars

\* a pass over two notebooks has returned a summary that adds up the notes of
\* both
C14_Witness ==
    \E u \in Users :
        /\ pass[u].result.kind = "summary"
        /\ pass[u].result.own = 2
        /\ pass[u].result.notebooks = 2
        /\ pass[u].result.notes = 3
        /\ syncLog[pass[u].result.log].notes_synced = 3

\* the Notebook row of the notebook the pass of u is at, in table rows
CurrentNotebookRow(rows, u) ==
    CHOOSE r \in rows : r.id = AllNotebooks(pass[u])[pass[u].nbIdx].id

\* the pass of u enters sync_notes_in_notebook for its current notebook
EntersNotebook(u) ==
    /\ pass[u].pc = "list"
    /\ pass[u].offset = 0
    /\ pass'[u] # pass[u]

ReconcileStep(u) ==
    /\ pass[u].pc \in {"own", "linked"}
    /\ pass'[u] # pass[u]

\* no step but a toggle changes the sync_enabled flag of an existing row
FlagSurvives ==
    toggles' = toggles
        => \A r \in notebooks : \E r2 \in notebooks' :
                r2.id = r.id /\ r2.sync_enabled = r.sync_enabled

\* C16 as stated - sync_enabled survives re-sync.  Reconciling own or linked
\* notebooks changes, on an existing row, only name, stack, update-sequence
\* marker and shared-from label; the flag of a row changes in no step of a pass.
C16_ConflictUpdatesOnlyLabels ==
    [][/\ FlagSurvives
       /\ \A u \in Users :
            ReconcileStep(u)
                => \A r \in notebooks : \E r2 \in notebooks' :
                        r2 = [r EXCEPT !.name = r2.name, !.stack = r2.stack, !.usn = r2.usn,
                                       !.shared_from = r2.shared_from]]_vars

\* C16 as amended - as C16, with the row's update timestamp among the fields a
\* conflict rewrites: an own notebook gets name, stack, update-sequence marker
\* and update timestamp, a linked one gets name, shared-from label and update
\* timestamp; sync_enabled and every other field stay as they are.
C16_ConflictUpdatesLabelsAndStamp ==
    [][/\ FlagSurvives
       /\ \A u \in Users :
            ReconcileStep(u)
                => \A r \in notebooks : \E r2 \in notebooks' :
                        IF r.is_shared
                        THEN r2 = [r EXCEPT !.name = r2.name, !.shared_from = r2.shared_from,
                                            !.updated_at = r2.updated_at]
                        ELSE r2 = [r EXCEPT !.name = r2.name, !.stack = r2.stack,
                                            !.usn = r2.usn, !.updated_at = r2.updated_at]]_vars

\* a notebook was synced, then disabled, and a later pass that succeeded has
\* reconciled it and passed it over: it is still disabled
C16_Witness ==
    \E r \in notebooks :
        /\ ~r.sync_enabled
        /\ toggles = 1
        /\ r.last_sync_at = 1
        /\ r.updated_at = 3
        /\ syncLog[3].status = "SUCCESS"
        /\ syncLog[3].user_id = r.user_id

\* the NoteAccess rows some session holds, committed or not
AllAccess == noteAccess \cup UNION {pass[u].pending : u \in Users}

\* the rows of a table that join note n to user u
AccessRows(rows, n, u) == {a \in rows : a.note_id = n /\ a.user_id = u}

\* the times at which a call can be made: the ids of the passes so far
CallTimes == 1..MaxPasses

NotebooksOf(rows, u) == {r \in rows : r.user_id = u}

\* C18 - Per-user notebook rows.  In every state there is at most one Notebook
\* row per (user, remote notebook identifier) and no two rows share an id, so
\* two users with access to one remote notebook have a row each; and a step
\* of the pass of one user leaves the Notebook rows of every other user as
\* they are.
C18_PerUserNotebookRows ==
    [][/\ \A r1, r2 \in notebooks' :
            \/ r1 = r2
            \/ /\ r1.id # r2.id
               /\ <<r1.user_id, r1.notebook_guid>> # <<r2.user_id, r2.notebook_guid>>
       /\ \A u \in Users :
            (pass'[u] # pass[u] /\ \A v \in Users \ {u} : pass'[v] = pass[v])
                => \A v \in Users \ {u} : NotebooksOf(notebooks', v) = NotebooksOf(notebooks, v)
       /\ \A u \in Users :
            pass'[u].pc \in {"list", "lookup", "note", "finish_nb"}
                => \A i \in 1..Len(AllNotebooks(pass'[u])) :
                        \E r \in NotebooksOf(notebooks', u) :
                            r.id = AllNotebooks(pass'[u])[i].id]_vars

\* the owner and the user it is shared with have both synced one remote
\* notebook: two rows, one per user, one own and one shared
C18_Witness ==
    \E r1, r2 \in notebooks :
        /\ r1.notebook_guid = r2.notebook_guid
        /\ r1.user_id = "A" /\ r2.user_id = "B"
        /\ ~r1.is_shared /\ r2.is_shared
        /\ r1.id # r2.id
        /\ r1.last_sync_at # NoTime /\ r2.last_sync_at # NoTime
        /\ r1.last_sync_at # r2.last_sync_at

\* the remote notes the account of u lists, in its own and linked notebooks
ListedFor(u) ==
    UNION ({Range(RemoteNotes(OwnNotebooks(u)[i].guid)) : i \in 1..Len(OwnNotebooks(u))}
            \cup {Range(RemoteNotes(LinkedNotebooks(u)[i].notebookGuid)) :
                    i \in 1..Len(LinkedNotebooks(u))})

\* C19 - Visibility follows the user's own observations.  A NoteAccess row
\* (N, u) comes into being only in a step of a pass of u that is working on N,
\* a note listed in a notebook of u, and it bears the time of that pass;
\* list_notes for u returns only notes joined to u by a NoteAccess row and not
\* flagged deleted, hence only notes the account of u lists, whoever stored them.
C19_VisibilityFollowsObservation ==
    [][/\ \A a \in AllAccess' \ AllAccess :
            \E u \in Users :
                /\ pass[u].pc = "note"
                /\ pass'[u] # pass[u]
                /\ a.user_id = u
                /\ a.synced_at = pass[u].log
                /\ \E n \in notes' : n.id = a.note_id /\ n.evernote_guid = CurrentGuid(u)
       /\ \A u \in Users : \A n \in list_notes(u)' :
            /\ AccessRows(noteAccess', n.id, u) # {}
            /\ ~n.is_deleted
            /\ n.evernote_guid \in ListedFor(u)
            /\ \A a \in AccessRows(noteAccess', n.id, u) :
                    syncLog'[a.synced_at].user_id = u]_vars

\* a user sees notes another user stored, and does not see a stored note that
\* only the other user's account lists
C19_Witness ==
    \E u \in Users : \E n, m \in notes :
        /\ n \in list_notes(u)
        /\ n.source_user_id # u
        /\ m.source_user_id # u
        /\ m \notin list_notes(u)
        /\ m.evernote_guid \notin ListedFor(u)
        /\ pass[u].result.kind = "summary"

\* toggle_notebook_sync answers in this step
ToggleStep ==
    /\ toggleResponse' # toggleResponse
    /\ toggleResponse'.status # 0

\* what the step of toggle_notebook_sync does but for the fields of the row it
\* writes: the answer, the budget, the flag, the other rows and the other tables
ToggleEffect ==
    /\ ToggleStep
        => LET id == toggleResponse'.notebook_id
               found == {nb \in notebooks : nb.id = id}
           IN /\ IF found = {}
                 THEN /\ toggleResponse'.status = 404
                      /\ notebooks' = notebooks
                      /\ toggles' = toggles
                 ELSE /\ toggleResponse'.status = 200
                      /\ toggles' = toggles + 1
                      /\ \E nb \in found : \E r \in notebooks' :
                            /\ notebooks' = (notebooks \ {nb}) \cup {r}
                            /\ r.id = nb.id
                            /\ r.sync_enabled = ~nb.sync_enabled
                            /\ toggleResponse'.sync_enabled = r.sync_enabled
              /\ UNCHANGED << notes, noteAccess, tags, noteTags, syncLog, userLastSync >>
    /\ toggles' # toggles => ToggleStep
    /\ \A nb \in notebooks' :
        /\ ToggleRow(nb).sync_enabled = ~nb.sync_enabled
        /\ ToggleRow(ToggleRow(nb)).sync_enabled = nb.sync_enabled

\* row nb is the notebook the call names and r is what the step makes of it
Toggled(nb, r) ==
    /\ ToggleStep
    /\ nb \in notebooks
    /\ r \in notebooks'
    /\ nb.id = toggleResponse'.notebook_id
    /\ r.id = nb.id

\* the row differs in its flag alone
FlagOnly(nb, r) == r = [nb EXCEPT !.sync_enabled = r.sync_enabled]

\* the row differs in its flag and its update timestamp alone
FlagAndStamp(nb, r) ==
    r = [nb EXCEPT !.sync_enabled = r.sync_enabled, !.updated_at = r.updated_at]

\* C20 as stated - toggleNotebookSync flips the flag.  For the id of an
\* existing notebook the call sets sync_enabled to its negation, changes no
\* other field of the row and no other row, and answers the new value; for an
\* id with no notebook it answers not-found and changes nothing; two toggles
\* of a notebook restore its flag.
C20_ToggleFlipsFlagOnly ==
    [][/\ ToggleEffect
       /\ \A nb \in notebooks : \A r \in notebooks' :
            Toggled(nb, r) => FlagOnly(nb, r)]_vars

\* C20 as amended - as C20, except that the row's update timestamp is
\* refreshed along with the flag; every other field of the notebook is
\* unchanged.
C20_ToggleFlipsFlag ==
    [][/\ ToggleEffect
       /\ \A nb \in notebooks : \A r \in notebooks' :
            Toggled(nb, r) => FlagAndStamp(nb, r)]_vars

\* a notebook has been toggled twice in a row: the second call answered true
\* and the notebook is enabled as it was at first
C20_Witness ==
    /\ toggles = 2
    /\ toggleResponse.status = 200
    /\ toggleResponse.sync_enabled
    /\ \A r \in notebooks : r.sync_enabled
    /\ \E r \in notebooks : r.id = toggleResponse.notebook_id /\ r.last_sync_at # NoTime

\* the remote no longer lists note row n under any notebook
RemotelyDeleted(n) == remoteNotebook[n.evernote_guid] = None

\* user u is running a pass that began after the last change of the remote
\* account and has gone through all of its notebooks
PassAfterChange(u) == pass[u].pc = "finish" /\ pass[u].clean /\ edits > 0

\* C21 - Grants and notes are never removed by sync.  Every step of a pass,
\* also of a pass whose remote listing no longer contains a note or whose
\* notebook is no longer shared, keeps every Note row (same id, same remote
\* identifier, still not flagged deleted) and every NoteAccess row: the two
\* tables only grow.
C21_NeverRemoved ==
    [][/\ \A n \in notes : \E m \in notes' :
            /\ m.id = n.id
            /\ m.evernote_guid = n.evernote_guid
            /\ m.is_deleted = n.is_deleted
       /\ noteAccess \subseteq noteAccess'
       /\ Cardinality(notes') >= Cardinality(notes)]_vars

\* a pass of a user has run to its end after a note the user was granted was
\* deleted on the remote side: the row and the grant are still there
C21_Witness ==
    \E u \in Users : \E n \in notes :
        /\ PassAfterChange(u)
        /\ RemotelyDeleted(n)
        /\ \E a \in noteAccess : a.note_id = n.id /\ a.user_id = u
        /\ \E m \in notes : m.id # n.id /\ m.updated_at = pass[u].log

\* the loop over the long listing has ended
PagingDone == paging.pc = "finish_nb"

\* the offsets asked for so far are 0, 50, 100, ... in this order
RequestsInSteps ==
    \A i \in 1..Len(paging.requests) : paging.requests[i] = (i - 1) * BatchSize

\* the notes processed so far are the first notes of the listing, each once
\* and in listing order
ProcessedOnce ==
    /\ Len(paging.processed) <= paging.total
    /\ \A i \in 1..Len(paging.processed) : paging.processed[i] = i

\* C22 - Paging covers the listing and terminates.  Over a listing of T notes
\* answered in pages of up to 50 from the requested offset, the loop asks for
\* offsets 0, 50, 100, ..., hands every listed note to _sync_single_note
\* exactly once, and has ended exactly when a page came back empty or the
\* next offset is at least T, by which time all T notes are processed; and
\* the loop always ends.
C22_PagingCoversAndTerminates ==
    /\ [](paging.pc # "off" =>
            /\ RequestsInSteps
            /\ ProcessedOnce
            /\ PagingDone <=> /\ paging.requests # << >>
                              /\ paging.page = << >> \/ paging.offset >= paging.total
            /\ PagingDone => Len(paging.processed) = paging.total)
    /\ <>PagingDone

\* a listing of more than two full pages has been gone through: three pages
\* were asked for and the last one was short
C22_Witness ==
    /\ PagingDone
    /\ paging.total > 2 * BatchSize
    /\ paging.requests = << 0, BatchSize, 2 * BatchSize >>
    /\ Len(paging.page) < BatchSize
    /\ Len(paging.processed) = paging.total

\* the remote notebook guids of user u in the order a pass is to take them:
\* the own notebooks as listed, then the linked notebooks as listed
NotebookOrder(u) ==
    [i \in 1..Len(OwnNotebooks(u)) |-> OwnNotebooks(u)[i].guid]
        \o [i \in 1..Len(LinkedNotebooks(u)) |-> LinkedNotebooks(u)[i].notebookGuid]

\* the stages of a pass that sync notes
NotePhase == {"list", "lookup", "note", "finish_nb"}

\* the stages that may follow a stage of a pass
StagesAfter(pc) ==
    CASE pc = "idle" -> {"idle", "own"}
      [] pc = "own" -> {"linked", "idle"}
      [] pc = "linked" -> {"list", "finish", "idle"}
      [] pc = "list" -> {"lookup", "list", "finish_nb", "finish", "idle"}
      [] pc = "lookup" -> {"note"}
      [] pc = "note" -> {"lookup", "list", "finish_nb", "idle"}
      [] pc = "finish_nb" -> {"list", "finish"}
      [] OTHER -> {"idle"}

\* the pass of user u takes a step
PassStep(u) == pass'[u] # pass[u] /\ edits' = edits /\ toggles' = toggles

\* C23 - Order of a pass.  A pass first writes its STARTED row and nothing
\* else, then reconciles the own notebooks, then the linked ones, and only
\* then syncs notes: notebook by notebook, own before linked and each in
\* listing order, and within a notebook one note at a time in listing order.
\* The row of the pass stays STARTED until the step that ends the pass.
C23_OrderOfPass ==
    [][\A u \in Users : PassStep(u) =>
        LET p == pass[u]
            q == pass'[u]
        IN /\ q.pc \in StagesAfter(p.pc)
           /\ (p.pc = "idle" /\ q.pc = "own") =>
                /\ syncLog' = Append(syncLog, syncLog'[q.log])
                /\ syncLog'[q.log].status = "STARTED"
                /\ syncLog'[q.log].user_id = u
                /\ UNCHANGED << notebooks, notes, noteAccess, tags, noteTags >>
           /\ p.pc = "own" =>
                /\ \A r \in notebooks' \ notebooks : r.user_id = u /\ ~r.is_shared
                /\ UNCHANGED << notes, noteAccess \cup p.pending, tags, noteTags >>
           /\ p.pc = "linked" =>
                /\ \A r \in notebooks' \ notebooks : r.user_id = u /\ r.is_shared
                /\ UNCHANGED << notes, noteAccess \cup p.pending, tags, noteTags >>
           /\ (notes' # notes \/ tags' # tags \/ noteTags' # noteTags) => p.pc = "note"
           /\ q.pc \in NotePhase =>
                /\ q.nbIdx \in 1..Len(NotebookOrder(u))
                /\ AllNotebooks(q)[q.nbIdx].notebook_guid = NotebookOrder(u)[q.nbIdx]
                /\ q.nbIdx = IF p.pc \in NotePhase
                             THEN IF p.pc = "finish_nb" \/ (p.pc = q.pc /\ q.pc = "list")
                                  THEN p.nbIdx + 1 ELSE p.nbIdx
                             ELSE 1
           /\ q.pc \in {"lookup", "note"} =>
                /\ q.noteIdx = IF p.pc = "list" THEN 1
                               ELSE IF p.pc = "note" THEN p.noteIdx + 1 ELSE p.noteIdx
                /\ q.page[q.noteIdx] =
                        RemoteNotes(NotebookOrder(u)[q.nbIdx])[q.offset + q.noteIdx]
           /\ q.pc # "idle" => syncLog'[q.log].status = "STARTED"
           /\ (p.pc # "idle" /\ syncLog'[p.log].status # "STARTED") => q.pc = "idle"
           /\ p.pc = "finish" => syncLog'[p.log].status = "SUCCESS"]_vars

\* user B, with an own and a linked notebook, is at the second note of the
\* linked notebook after its own notebook was gone through
C23_Witness ==
    /\ pass["B"].pc = "note"
    /\ pass["B"].nbIdx = 2
    /\ pass["B"].noteIdx = 2
    /\ \E r \in notebooks :
        r.user_id = "B" /\ r.notebook_guid = "Inbox" /\ r.last_sync_at = pass["B"].log
    /\ syncLog[pass["B"].log].status = "STARTED"

\* the pass of user u takes a step on a note during which getTag raises
TagFailureStep(u) ==
    /\ pass[u].pc = "note"
    /\ pass'[u] # pass[u]
    /\ faults' > faults
    /\ ~(pass'[u].pc = "idle" /\ pass'[u].result.error = "getNote failed")

\* the tag guids of remote note g that have no Tag row in table rows
TagsMissing(rows, g) ==
    {t \in Range(RemoteTags(g)) : \A x \in rows : x.evernote_guid # t}

\* the tag guids of remote note g that have a Tag row in table rows, each
\* linked to note row n in table links
TagsLinked(rows, links, g, n) ==
    \A t \in Range(RemoteTags(g)) \ TagsMissing(rows, g) :
        \E x \in rows : /\ x.evernote_guid = t
                        /\ [note_id |-> n.id, tag_id |-> x.id] \in links

\* C24 - Tag failure isolation.  When getTag raises for tags of the note a
\* pass is working on, exactly those tags are left out: every other tag of
\* the note has a Tag row and is linked to the note, the note is stored or
\* updated with the remote content, granted to the user and counted as synced,
\* and the pass goes on with its log row still STARTED.
C24_TagFailureIsolated ==
    [][\A u \in Users : TagFailureStep(u) =>
        LET g == CurrentGuid(u)
        IN /\ pass'[u].pc \in {"lookup", "list", "finish_nb"}
           /\ pass'[u].total_synced = pass[u].total_synced + 1
           /\ syncLog' = syncLog
           /\ <<g, u>> \in observed'
           /\ Cardinality(TagsMissing(tags', g)) = faults' - faults
           /\ \E n \in notes' :
                /\ n.evernote_guid = g
                /\ n.updated_at = pass[u].log
                /\ n.enml_content = remoteContent[g]
                /\ n.content_hash = ContentHash(remoteContent[g])
                /\ \E a \in noteAccess' : a.note_id = n.id /\ a.user_id = u
                /\ TagsLinked(tags', noteTags', g, n)]_vars

\* getTag raised for the first tag of note g1 in the pass that is now at the
\* next note: g1 is stored and linked to its second tag alone
C24_Witness ==
    \E u \in Users : \E n \in notes :
        /\ faults = 1
        /\ pass[u].pc = "lookup"
        /\ pass[u].noteIdx = 2
        /\ n.evernote_guid = "g1"
        /\ n.updated_at = pass[u].log
        /\ TagsMissing(tags, "g1") = {"tg1"}
        /\ TagsLinked(tags, noteTags, "g1", n)
        /\ \E a \in noteAccess : a.note_id = n.id /\ a.user_id = u

\* no two Tag rows of table rows carry the same remote tag identifier
TagsDeduplicated(rows) ==
    \A x \in rows : \A y \in rows : x.evernote_guid = y.evernote_guid => x = y

\* every link of table links joins a stored note to a stored tag, and no two
\* links join the same note to the same tag
LinksWellFormed(rows, links) ==
    /\ \A l \in links : /\ \E n \in notes : n.id = l.note_id
                        /\ \E x \in rows : x.id = l.tag_id
    /\ \A l \in links : \A k \in links :
            (l.note_id = k.note_id /\ l.tag_id = k.tag_id) => l = k

\* the tables tags and note_tags after the tags of note row n are synced
\* once more with every getTag going through
TagsSyncedAgain(t, n) ==
    _sync_note_tags(t, n.id, RemoteTags(n.evernote_guid),
                    Len(RemoteTags(n.evernote_guid)), {})

\* C25 - Tag deduplication and idempotent links.  After any sequence of passes
\* there is at most one Tag row per remote tag identifier and at most one link
\* per (note, tag).  Syncing the tags of a stored note adds a Tag row only for
\* an identifier that has none, and syncing them a second time adds no Tag
\* row and no link.
C25_TagsDeduplicated ==
    /\ TagsDeduplicated(tags)
    /\ LinksWellFormed(tags, noteTags)
    /\ \A n \in notes :
        LET t0 == [tags |-> tags, noteTags |-> noteTags]
            t1 == TagsSyncedAgain(t0, n)
        IN /\ tags \subseteq t1.tags
           /\ noteTags \subseteq t1.noteTags
           /\ \A x \in t1.tags \ tags : \A y \in tags : y.evernote_guid # x.evernote_guid
           /\ TagsDeduplicated(t1.tags)
           /\ LinksWellFormed(t1.tags, t1.noteTags)
           /\ TagsSyncedAgain(t1, n) = t1

\* notes g1 and g3 share the one Tag row of tg1, and the tags of g1 have been
\* synced twice: when it was inserted and when a later pass updated it
C25_Witness ==
    \E n \in notes : \E m \in notes : \E x \in tags :
        /\ n.evernote_guid = "g1"
        /\ m.evernote_guid = "g3"
        /\ x.evernote_guid = "tg1"
        /\ [note_id |-> n.id, tag_id |-> x.id] \in noteTags
        /\ [note_id |-> m.id, tag_id |-> x.id] \in noteTags
        /\ Cardinality(tags) = 2
        /\ Cardinality(noteTags) = 3
        /\ \E a \in noteAccess : a.note_id = n.id /\ a.synced_at < n.updated_at

\* values shared_nb.privilege may take: the three known codes, codes the
\* mapping does not know, and a missing value (-1 stands for None)
PrivilegeCodes == -1..5

\* the privilege strings a Notebook row may hold
PrivilegeNames == {"READ", "MODIFY", "FULL"}

\* C26 - Privilege mapping.  _map_privilege answers READ for code 1, MODIFY for
\* code 2, FULL for code 3 and READ for every other value, a missing one
\* included; its answer is always one of the three names, and so is the
\* privilege of every Notebook row, the row of a linked notebook holding the
\* name of the code the remote reported.
C26_PrivilegeMapping ==
    /\ _map_privilege(1) = "READ"
    /\ _map_privilege(2) = "MODIFY"
    /\ _map_privilege(3) = "FULL"
    /\ \A priv \in PrivilegeCodes \ {1, 2, 3} : _map_privilege(priv) = "READ"
    /\ \A priv \in PrivilegeCodes : _map_privilege(priv) \in PrivilegeNames
    /\ \A r \in notebooks :
        /\ r.privilege \in PrivilegeNames
        /\ r.is_shared =>
            \E i \in 1..Len(LinkedNotebooks(r.user_id)) :
                LET lnb == LinkedNotebooks(r.user_id)[i]
                IN /\ lnb.notebookGuid = r.notebook_guid
                   /\ lnb.privilege = 2
                   /\ r.privilege = "MODIFY"

\* the linked notebook of user B, shared with privilege code 2, is stored
C26_Witness ==
    \E r \in notebooks :
        /\ r.user_id = "B"
        /\ r.is_shared
        /\ r.privilege = "MODIFY"
        /\ LinkedNotebooks("B")[1].privilege = 2

\* C27 - Bounded error text.  The error text on every FAILED SyncLog row is
\* cut to a bounded length, however long the message of the exception is.
C27_BoundedErrorText ==
    \A i \in DOMAIN syncLog :
        syncLog[i].status = "FAILED" => Len(syncLog[i].error_message) <= ErrorTextLimit

\* a content that is empty or absent
EmptyContent(content) == content = "" \/ content = None

\* the pass of user u takes a step on a note whose fetch went through
FetchedStep(u) ==
    /\ pass[u].pc = "note"
    /\ pass'[u] # pass[u]
    /\ ~(pass'[u].pc = "idle" /\ pass'[u].result.error = "getNote failed")

\* what select(Note) answers for the stored row n
AsExisting(n) ==
    [found |-> TRUE, id |-> n.id, content_hash |-> n.content_hash, title |-> n.title]

\* every stored note without content has an empty plain text and the
\* fingerprint of the empty payload, and a fetch that answers with an empty
\* or an absent content finds such a note unchanged
EmptyStoredAsEmpty ==
    \A n \in notes :
        /\ EmptyContent(n.enml_content) =>
              n.plain_text = "" /\ n.content_hash = Md5("") /\ n.content_length = 0
        /\ n.content_hash = Md5("") =>
              \A c \in {"", None} :
                  Unchanged(AsExisting(n), [GetNote(n.evernote_guid) EXCEPT !.content = c])

\* C28 - Empty content is accepted.  A pass that fetches a note whose content
\* is empty or absent goes on without an error and has the note stored with
\* an empty plain text, length 0 and the fingerprint of the empty payload; if
\* the note was stored with that fingerprint before, nothing is written and no
\* update is counted, whether the content is now empty or absent.
C28_EmptyContentAccepted ==
    [][/\ EmptyStoredAsEmpty'
       /\ \A u \in Users :
            (FetchedStep(u) /\ EmptyContent(remoteContent[CurrentGuid(u)])) =>
                /\ pass'[u].pc # "idle"
                /\ syncLog' = syncLog
                /\ \E n \in notes' :
                    /\ n.evernote_guid = CurrentGuid(u)
                    /\ n.plain_text = ""
                    /\ n.content_length = 0
                    /\ n.content_hash = Md5("")
                /\ (pass[u].existing.found /\ pass[u].existing.content_hash = Md5("")) =>
                    /\ notes' = notes
                    /\ pass'[u].total_synced = pass[u].total_synced]_vars

\* a note whose content is absent was stored by a pass of user A, and a later
\* pass of A that began after the content went away has gone through all of
\* its notebooks without writing the note again
C28_Witness ==
    \E n \in notes :
        /\ remoteContent[n.evernote_guid] = None
        /\ n.enml_content = None
        /\ n.plain_text = ""
        /\ n.content_hash = Md5("")
        /\ PassAfterChange("A")
        /\ n.updated_at < pass["A"].log
        /\ <<n.evernote_guid, "A">> \in observed
        /\ remoteNotebook[n.evernote_guid] # None

\* C29 - Source-user attribution is fixed at creation.  A Note row that a step
\* of user u's pass inserts names u as its source user, and no step ever
\* changes the source user of a stored row, whether the pass that takes it is
\* of the same or of another user and whether it leaves the note as it is or
\* updates its content.
C29_SourceUserFixed ==
    [][/\ \A n \in notes : \A m \in notes' : m.id = n.id => m.source_user_id = n.source_user_id
       /\ \A m \in notes' :
            (\A n \in notes : n.id # m.id) =>
                \E u \in Users : /\ pass[u].pc = "note"
                                 /\ pass'[u] # pass[u]
                                 /\ m.source_user_id = u
                                 /\ m.evernote_guid = CurrentGuid(u)]_vars

\* a note that user A's pass inserted has been updated by a later pass of
\* user B and is still attributed to A
C29_Witness ==
    \E n \in notes :
        /\ n.source_user_id = "A"
        /\ \E a \in noteAccess : a.note_id = n.id /\ a.user_id = "A" /\ a.synced_at < n.updated_at
        /\ syncLog[n.updated_at].user_id = "B"
        /\ n.content_hash # Md5("<en-note>alpha</en-note>")

\* the remote guid of the notebook the pass of user u is working through
CurrentNotebookGuid(u) == AllNotebooks(pass[u])[pass[u].nbIdx].notebook_guid

\* C30 - A Note row records the notebook the note currently resides in.  When
\* a pass has found the note it is working on already stored and has dealt
\* with it, the row of the note references a Notebook row whose remote
\* notebook identifier is that of the notebook the pass found the note listed
\* under, also when the note was stored from another notebook and has moved.
C30_NotebookTracksListing ==
    [][\A u \in Users : FoundStep(u) =>
        \A n \in notes' :
            n.evernote_guid = CurrentGuid(u) =>
                \E r \in notebooks' : /\ r.id = n.notebook_id
                                      /\ r.notebook_guid = CurrentNotebookGuid(u)]_vars

\* the raw content of a row as it is hashed: an absent content counts as empty
StoredPayload(n) == IF n.enml_content = None THEN "" ELSE n.enml_content

\* C31 - Stored fingerprint matches stored content.  In every state every
\* Note row holds the digest of its own raw content (an absent content hashed
\* as the empty payload) and the tag-stripped rendering of that content: the
\* insert and the update write content, plain text and fingerprint together.
C31_FingerprintMatchesContent ==
    \A n \in notes :
        /\ n.content_hash = Md5(StoredPayload(n))
        /\ n.plain_text = strip_enml(n.enml_content)
        /\ n.enml_content \in Contents \cup {None}

\* a note has been inserted by one pass and its content replaced by a later
\* pass: the row holds the new payload, its digest and its rendering
C31_Witness ==
    \E n \in notes :
        /\ n.enml_content = "<en-note>beta</en-note>"
        /\ n.content_hash = "md5-beta"
        /\ n.plain_text = "beta"
        /\ \E a \in noteAccess : a.note_id = n.id /\ a.synced_at < n.updated_at

\* C32 - Every stored note is visible to its source user.  In every state of
\* the committed tables each Note row has a NoteAccess row for the note and
\* its source user, and every NoteAccess row, committed or still pending in a
\* session, refers to a Note row that exists.
C32_SourceUserHasAccess ==
    /\ \A n \in notes :
        \E a \in noteAccess : a.note_id = n.id /\ a.user_id = n.source_user_id
    /\ \A a \in AllAccess : \E n \in notes : n.id = a.note_id

\* a note inserted by user A's pass is granted to A and, after B's pass
\* found it, to B as well, while a pass is still running
C32_Witness ==
    \E n \in notes :
        /\ n.source_user_id = "A"
        /\ \E a \in noteAccess : a.note_id = n.id /\ a.user_id = "A"
        /\ \E a \in noteAccess : a.note_id = n.id /\ a.user_id = "B"
        /\ \E u \in Users : pass[u].pc = "note"

\* C33 - A failed pass does not advance the user's last-sync timestamp.  The
\* last_sync_at of a user changes only at the step that ends a pass of that
\* user with SUCCESS, and is then the time of that pass; a step that ends a
\* pass FAILED or raising, and a call rejected for invalid auth, leave it as
\* it was.
C33_LastSyncOnlyOnSuccess ==
    [][\A u \in Users :
        /\ userLastSync'[u] # userLastSync[u] =>
              /\ pass[u].pc = "finish"
              /\ pass'[u].result.kind = "summary"
              /\ syncLog'[pass[u].log].status = "SUCCESS"
              /\ userLastSync'[u] = pass[u].log
        /\ (pass'[u] # pass[u] /\ pass'[u].result.kind = "raised") =>
              userLastSync'[u] = userLastSync[u]]_vars

\* a user's first pass succeeded and a later pass of the same user failed:
\* last_sync_at is still the time of the first
C33_Witness ==
    \E u \in Users : \E i \in DOMAIN syncLog : \E j \in DOMAIN syncLog :
        /\ i < j
        /\ syncLog[i].user_id = u /\ syncLog[i].status = "SUCCESS"
        /\ syncLog[j].user_id = u /\ syncLog[j].status = "FAILED"
        /\ userLastSync[u] = i
        /\ pass[u].pc = "idle"

\* the pass of user u has gone through every page of its current notebook:
\* the offset has reached the number of listed notes and every listed note
\* has been dealt with
NotebookCompleted(u) ==
    LET listing == RemoteNotes(AllNotebooks(pass[u])[pass[u].nbIdx].notebook_guid)
    IN /\ pass[u].pc = "finish_nb"
       /\ listing = << >> \/ pass[u].offset >= Len(listing)
       /\ \A i \in 1..Len(listing) : <<listing[i], u>> \in observed

\* C34 - Notebook last-sync timestamp marks a completed notebook.  The
\* last_sync_at of a Notebook row changes only at the step that ends
\* sync_notes_in_notebook for that notebook after all of its pages were gone
\* through, and is then the time of that pass; a new row has none; a step that
\* skips a disabled notebook, and a step at which the listing or a note
\* raises, change no last_sync_at.
C34_LastSyncMarksCompleted ==
    [][/\ \A r \in notebooks' :
            (\A old \in notebooks : old.id # r.id) => r.last_sync_at = NoTime
       /\ \A old \in notebooks : \A r \in notebooks' :
            (r.id = old.id /\ r.last_sync_at # old.last_sync_at) =>
                \E u \in Users :
                    /\ NotebookCompleted(u)
                    /\ PassStep(u)
                    /\ old.id = AllNotebooks(pass[u])[pass[u].nbIdx].id
                    /\ old.user_id = u
                    /\ r.last_sync_at = pass[u].log
       /\ \A u \in Users :
            (PassStep(u) /\ pass[u].pc \in {"list", "lookup", "note"}) =>
                notebooks' = notebooks]_vars

\* user A's pass skipped notebook Research, disabled since A's first pass,
\* and completed notebook Private: Research keeps the time of the first pass
\* and Private has the time of this one
C34_Witness ==
    \E r \in notebooks : \E s \in notebooks :
        /\ r.user_id = "A" /\ r.notebook_guid = "Research"
        /\ s.user_id = "A" /\ s.notebook_guid = "Private"
        /\ ~r.sync_enabled
        /\ pass["A"].pc = "finish"
        /\ r.last_sync_at # NoTime
        /\ r.last_sync_at < pass["A"].log
        /\ s.last_sync_at = pass["A"].log
        /\ ~AllNotebooks(pass["A"])[1].sync_enabled

\* C35 - Privilege and shared flag are fixed at first insert.  When a pass
\* reconciles the linked notebooks of a user, every Notebook row that exists
\* keeps all of its fields but name, shared-from label and update time: its
\* privilege, is_shared flag and shared-notebook identifier stay as first
\* written, also when the remote privilege code has changed since.
C35_PrivilegeFixedAtInsert ==
    [][\A u \in Users :
        (PassStep(u) /\ pass[u].pc = "linked") =>
            \A r \in notebooks : \E r2 \in notebooks' :
                /\ r2 = [r EXCEPT !.name = r2.name, !.shared_from = r2.shared_from,
                                  !.updated_at = r2.updated_at]
                /\ r2.privilege = r.privilege
                /\ r2.is_shared = r.is_shared
                /\ r2.shared_notebook_guid = r.shared_notebook_guid]_vars

\* the share of Research was stored with code 2 and the code changed: a later
\* pass of user B has reconciled the row, which still says MODIFY
C35_Witness ==
    \E r \in notebooks :
        /\ r.user_id = "B"
        /\ r.is_shared
        /\ r.privilege = "MODIFY"
        /\ _map_privilege(remotePrivilege) # "MODIFY"
        /\ PassAfterChange("B")
        /\ r.updated_at = pass["B"].log
        /\ syncLog[1].user_id = "B"

\* the flag a toggle has answered with is the flag the notebook has
ToggleAnswerStands ==
    toggleResponse.status = 200 =>
        \E r \in notebooks : /\ r.id = toggleResponse.notebook_id
                             /\ r.sync_enabled = toggleResponse.sync_enabled

\* C36 as stated - A toggle during a running pass is not lost.  A flag that
\* toggle_notebook_sync commits while a pass of the owner is running is the
\* stored flag when both have finished: no step of a pass changes the flag of
\* a row, and a pass writes only name, stack, update-sequence marker and
\* last_sync_at on a row that exists.
C36_ToggleNotLostOnlyLabels ==
    [][/\ FlagSurvives
       /\ ToggleAnswerStands'
       /\ \A u \in Users : PassStep(u) =>
            \A r \in notebooks : \E r2 \in notebooks' :
                r2 = [r EXCEPT !.name = r2.name, !.stack = r2.stack, !.usn = r2.usn,
                               !.last_sync_at = r2.last_sync_at]]_vars

\* C36 as amended - as C36, with the shared-from label and the update
\* timestamp among the fields a pass writes on a row that exists: the flag and
\* every other field stay as they are.
C36_ToggleNotLost ==
    [][/\ FlagSurvives
       /\ ToggleAnswerStands'
       /\ \A u \in Users : PassStep(u) =>
            \A r \in notebooks : \E r2 \in notebooks' :
                r2 = [r EXCEPT !.name = r2.name, !.stack = r2.stack, !.usn = r2.usn,
                               !.shared_from = r2.shared_from,
                               !.last_sync_at = r2.last_sync_at,
                               !.updated_at = r2.updated_at]]_vars

\* notebook Research was disabled after user A's running pass had loaded it
\* as enabled; the pass has synced its notes and committed its last_sync_at,
\* and the notebook is still disabled as the toggle answered
C36_Witness ==
    \E r \in notebooks :
        /\ r.user_id = "A" /\ r.notebook_guid = "Research"
        /\ pass["A"].pc = "finish"
        /\ AllNotebooks(pass["A"])[1].id = r.id
        /\ AllNotebooks(pass["A"])[1].sync_enabled
        /\ ~r.sync_enabled
        /\ r.last_sync_at = pass["A"].log
        /\ toggleResponse = [status |-> 200, notebook_id |-> r.id, sync_enabled |-> FALSE]
        /\ \E n \in notes : n.evernote_guid = "g1" /\ n.updated_at = pass["A"].log

\* ------------------------------------------------------------------------
\* C37, C38: the stock collector
\* ------------------------------------------------------------------------
\* the number of companies whose sync_prices raised
RaisedCount(outcomes) == Cardinality({i \in 1..Len(outcomes) : outcomes[i].raised})

\* the sum of the synced counts of the companies whose sync_prices returned
RECURSIVE SyncedSum(_)
SyncedSum(outcomes) ==
    IF outcomes = << >> THEN 0
    ELSE (IF Head(outcomes).raised THEN 0 ELSE Head(outcomes).synced) + SyncedSum(Tail(outcomes))

\* the calls of the method op that have ended
EndedCalls(op) == {c \in Range(stock.ended) : c.op = op}

\* C37: per-company isolation in sync_all_prices. Whatever sync_prices raised
\* for some companies, a call of sync_all_prices that ended has attempted
\* every selected company, has returned, its errors count is the number of
\* companies whose sync_prices raised, its total_synced is the sum of the
\* synced counts of the others, and its StockSyncLog row is SUCCESS with
\* these counts.
C37_PerCompanyIsolation ==
    \A c \in EndedCalls("sync_all_prices") :
        /\ Len(c.outcomes) = c.log.target_count
        /\ c.raised = None
        /\ c.value.errors = RaisedCount(c.outcomes)
        /\ c.value.total_synced = SyncedSum(c.outcomes)
        /\ \E r \in stock.log :
            /\ r.id = c.id
            /\ r.status = "SUCCESS"
            /\ r.error_count = RaisedCount(c.outcomes)
            /\ r.synced_count = SyncedSum(c.outcomes)

\* the row is SUCCESS with its counts and finish time set, for a call that returned
EndedSuccess(c, r) ==
    /\ c.raised = None
    /\ r.status = "SUCCESS"
    /\ r.synced_count = c.log.synced_count
    /\ r.error_count = c.log.error_count
    /\ r.finished_at # NoTime

\* the row is FAILED with the cut text of the exception the call raised and
\* with its finish time set
EndedFailed(c, r) ==
    /\ c.raised # None
    /\ r.status = "FAILED"
    /\ Len(r.error_message) <= ErrorTextLimit
    /\ r.error_message = Truncated(c.raised, ErrorTextLimit)
    /\ r.finished_at # NoTime

\* C38: the state machine of the stock sync log. Every call of
\* sync_company_listing or sync_all_prices that ended has its StockSyncLog
\* row in the table, and the row is either SUCCESS (counts and finish time
\* set, the call returned) or FAILED (error text of at most 500 characters,
\* finish time set, the exception raised again).
C38_LogEndsTerminal ==
    \A c \in Range(stock.ended) :
        \E r \in stock.log :
            /\ r.id = c.id
            /\ EndedSuccess(c, r) \/ EndedFailed(c, r)

====
